---- MODULE Spec2Model ----
(***************************************************************************)
(* Verification model of rust-steganography_thing:                         *)
(*   - the JPEG marker multiplexer (picture/jpg/marker_hijacking.rs),      *)
(*   - the WAV LSB codec (audio/wav/lsb.rs),                               *)
(*   - the image LSB codec (picture/general/lsb.rs),                       *)
(*   - the PNG-native LSB codec (picture/lsb.rs),                          *)
(*   - the audio branches of the command line (main.rs).                   *)
(* Buffers are sequences of bytes (0..255).  Rust indices are 0-based; the *)
(* operators below keep the 0-based indices of the source and access the   *)
(* 1-based TLA+ sequences through At and Slice.                            *)
(***************************************************************************)
EXTENDS Integers, Sequences, FiniteSets, TLC

VARIABLES jpgIn, jpgOut, hid, fnd, rehides, txtHid, txtFnd,
          wavIn, wavOut, wavHid, wavFnd, cliHid, cliFnd,
          imgIn, imgOut, imgHid, imgFnd,
          pngIn, pngOut, pngHid, chk, scan

vars == <<jpgIn, jpgOut, hid, fnd, rehides, txtHid, txtFnd,
          wavIn, wavOut, wavHid, wavFnd, cliHid, cliFnd,
          imgIn, imgOut, imgHid, imgFnd,
          pngIn, pngOut, pngHid, chk, scan>>

markerVars == <<jpgIn, jpgOut, hid, fnd, rehides, txtHid, txtFnd>>
wavVars == <<wavIn, wavOut, wavHid, wavFnd, cliHid, cliFnd>>
imgVars == <<imgIn, imgOut, imgHid, imgFnd>>
pngVars == <<pngIn, pngOut, pngHid>>
chunkVars == <<chk>>

(***************************************************************************)
(* Byte and slice helpers (Rust slice semantics).                          *)
(***************************************************************************)
At(buf, i) == buf[i + 1]

Slice(buf, a, b) == SubSeq(buf, a + 1, b)

SliceFrom(buf, a) == SubSeq(buf, a + 1, Len(buf))

starts_with_exact(s, prefix) == s = prefix

starts_with(s, prefix) ==
    /\ Len(prefix) <= Len(s)
    /\ SubSeq(s, 1, Len(prefix)) = prefix

u16_from_be_bytes(hi, lo) == hi * 256 + lo

as_u16(n) == n % 65536

u16_to_be_bytes(v) == <<v \div 256, v % 256>>

saturating_sub(a, b) == IF a >= b THEN a - b ELSE 0

RECURSIVE Concat(_)
Concat(ss) == IF ss = <<>> THEN <<>> ELSE Head(ss) \o Concat(Tail(ss))

Some(x) == [some |-> TRUE, val |-> x]
NoIndex == [some |-> FALSE, val |-> 0]
NoId == [some |-> FALSE, val |-> <<>>]

(***************************************************************************)
(* Constants of marker_hijacking.rs.                                       *)
(***************************************************************************)
SOI == <<255, 216>>
SOS_MARKER == 218

(* 65_533 in the source.  The model scales the limit down so that payloads *)
(* of a few bytes span several chunks; chunking depends on it only through *)
(* max_body, and the 16-bit length and sequence fields keep their width.   *)
MAX_SEGMENT_PAYLOAD == 13

(* 65_535 in the source: the largest value of a segment's length field,    *)
(* which counts the payload and the two length bytes                       *)
MAX_SEGMENT_TOTAL_LEN == MAX_SEGMENT_PAYLOAD + 2

make_app_segment_short_len(app_marker, payload) ==
    <<255, app_marker>> \o u16_to_be_bytes(as_u16(Len(payload))) \o payload

make_app_segment(app_marker, payload) ==
    <<255, app_marker>> \o u16_to_be_bytes(as_u16(Len(payload) + 2)) \o payload

(* markers the scanners skip without reading a length field *)
IsStandalone(marker) == marker = 0 \/ (marker >= 208 /\ marker <= 215)

RECURSIVE sos_scan(_, _)
sos_scan(buf, i) ==
    IF ~(i + 1 < Len(buf)) THEN NoIndex
    ELSE IF At(buf, i) # 255 THEN sos_scan(buf, i + 1)
    ELSE LET marker == At(buf, i + 1) IN
         IF marker = SOS_MARKER THEN Some(i)
         ELSE IF IsStandalone(marker) THEN sos_scan(buf, i + 2)
         ELSE IF i + 3 >= Len(buf) THEN NoIndex
         ELSE LET len == u16_from_be_bytes(At(buf, i + 2), At(buf, i + 3))
              IN  sos_scan(buf, i + 2 + len)

find_sos_index(buf) == sos_scan(buf, 2)

RECURSIVE collect_scan_past_sos(_, _, _)
collect_scan_past_sos(buf, i, res) ==
    IF ~(i + 1 < Len(buf)) THEN res
    ELSE IF At(buf, i) # 255 THEN collect_scan_past_sos(buf, i + 1, res)
    ELSE LET marker == At(buf, i + 1) IN
         IF IsStandalone(marker) THEN collect_scan_past_sos(buf, i + 2, res)
         ELSE IF i + 3 >= Len(buf) THEN res
         ELSE LET len == u16_from_be_bytes(At(buf, i + 2), At(buf, i + 3))
                  seg_start == i
                  seg_end == i + 2 + len
              IN  IF seg_end > Len(buf) THEN res
                  ELSE collect_scan_past_sos(buf, seg_end,
                                             Append(res, <<marker, seg_start, seg_end>>))

RECURSIVE collect_scan(_, _, _)
collect_scan(buf, i, res) ==
    IF ~(i + 1 < Len(buf)) THEN res
    ELSE IF At(buf, i) # 255 THEN collect_scan(buf, i + 1, res)
    ELSE LET marker == At(buf, i + 1) IN
         IF marker = SOS_MARKER THEN res
         ELSE IF IsStandalone(marker) THEN collect_scan(buf, i + 2, res)
         ELSE IF i + 3 >= Len(buf) THEN res
         ELSE LET len == u16_from_be_bytes(At(buf, i + 2), At(buf, i + 3))
                  seg_start == i
                  seg_end == i + 2 + len
              IN  IF seg_end > Len(buf) THEN res
                  ELSE collect_scan(buf, seg_end,
                                    Append(res, <<marker, seg_start, seg_end>>))

collect_app_segments(buf) == collect_scan(buf, 2, <<>>)

(***************************************************************************)
(* The two scanners one loop iteration at a time.  An iteration evaluates  *)
(* the loop condition and, when it holds, the loop body up to its continue, *)
(* break or return; read is the highest index of buf it reads (-1: none).  *)
(***************************************************************************)
scan_advance_no_marker(i, len) == i + len

(* i += 2 + len, and seg_end = i + 2 + len *)
scan_advance(i, len) == i + 2 + len

ScanGo(i, res, read) ==
    [done |-> FALSE, i |-> i, found |-> NoIndex, res |-> res, read |-> read]

ScanEnd(i, found, res, read) ==
    [done |-> TRUE, i |-> i, found |-> found, res |-> res, read |-> read]

scan_iteration(fn, buf, i, res) ==
    IF ~(i + 1 < Len(buf)) THEN ScanEnd(i, NoIndex, res, -1)
    ELSE IF At(buf, i) # 255 THEN ScanGo(i + 1, res, i)
    ELSE LET marker == At(buf, i + 1) IN
         IF marker = SOS_MARKER
         THEN ScanEnd(i, IF fn = "find_sos_index" THEN Some(i) ELSE NoIndex,
                      res, i + 1)
         ELSE IF IsStandalone(marker) THEN ScanGo(i + 2, res, i + 1)
         ELSE IF i + 3 >= Len(buf) THEN ScanEnd(i, NoIndex, res, i + 1)
         ELSE LET len == u16_from_be_bytes(At(buf, i + 2), At(buf, i + 3)) IN
              IF fn = "find_sos_index"
              THEN ScanGo(scan_advance(i, len), res, i + 3)
              ELSE LET seg_start == i
                       seg_end == scan_advance(i, len)
                   IN  IF seg_end > Len(buf) THEN ScanEnd(i, NoIndex, res, i + 3)
                       ELSE ScanGo(seg_end,
                                   Append(res, <<marker, seg_start, seg_end>>),
                                   i + 3)

(***************************************************************************)
(* chunk_payload_with_identifier: the assert aborts the call ("Panic").    *)
(***************************************************************************)
max_body_of_no_header(identifier) == MAX_SEGMENT_PAYLOAD

max_body_of(identifier) == saturating_sub(MAX_SEGMENT_PAYLOAD, Len(identifier) + 4)

chunk_count(payload_len, max_body) == (payload_len + max_body - 1) \div max_body

(* let total = ((payload.len() + max_body - 1) / max_body) as u16 *)
chunk_total(payload_len, max_body) == as_u16(chunk_count(payload_len, max_body))

(* (i as u16) *)
chunk_seq(i) == as_u16(i)

(* payload.chunks(max_body): chunk i is payload[start..end] *)
chunk_start(i, max_body) == i * max_body
chunk_end(i, max_body, payload_len) ==
    IF (i + 1) * max_body < payload_len THEN (i + 1) * max_body ELSE payload_len

chunk_payload_with_identifier(payload, identifier) ==
    LET max_body == max_body_of(identifier) IN
    IF ~(max_body > 0) THEN [kind |-> "Panic", chunks |-> <<>>]
    ELSE LET total == chunk_total(Len(payload), max_body)
             n == chunk_count(Len(payload), max_body)
             chunk(i) == Slice(payload, chunk_start(i, max_body),
                               chunk_end(i, max_body, Len(payload)))
         IN  [kind |-> "Ok",
              chunks |-> [k \in 1..n |->
                            identifier
                            \o u16_to_be_bytes(chunk_seq(k - 1))
                            \o u16_to_be_bytes(total)
                            \o chunk(k - 1)]]

(* the same call on a payload of payload_len bytes, keeping of the chunks  *)
(* what a caller sees of their headers and sizes: their number, the total  *)
(* fields, how many sequence fields differ from the chunk's position, how  *)
(* many are not below the total field, how many distinct sequence fields   *)
(* there are, and the body lengths                                         *)
chunk_headers(payload_len, identifier) ==
    LET max_body == max_body_of(identifier) IN
    IF ~(max_body > 0)
    THEN [kind |-> "Panic", count |-> 0, totals |-> {}, seq_wrong |-> 0,
          seq_ge_total |-> 0, distinct_seqs |-> 0, body_lens |-> {}, last_len |-> 0]
    ELSE LET total == chunk_total(payload_len, max_body)
             n == chunk_count(payload_len, max_body)
             len_of(i) == chunk_end(i, max_body, payload_len) - chunk_start(i, max_body)
         IN  [kind |-> "Ok",
              count |-> n,
              totals |-> IF n = 0 THEN {} ELSE {total},
              seq_wrong |-> Cardinality({i \in 0..(n - 1) : chunk_seq(i) # i}),
              seq_ge_total |-> Cardinality({i \in 0..(n - 1) : chunk_seq(i) >= total}),
              distinct_seqs |-> Cardinality({chunk_seq(i) : i \in 0..(n - 1)}),
              body_lens |-> {len_of(i) : i \in 0..(n - 2)},
              last_len |-> IF n = 0 THEN 0 ELSE len_of(n - 1)]

(***************************************************************************)
(* insert_or_replace_appn                                                  *)
(***************************************************************************)
InsOk(b) == [kind |-> "Ok", val |-> b, err |-> ""]
InsErr(e) == [kind |-> "Err", val |-> <<>>, err |-> e]
InsPanic == [kind |-> "Panic", val |-> <<>>, err |-> "identifier too large for APPn segment"]

RECURSIVE keep_segments_payload_only(_, _, _, _)
keep_segments_payload_only(original, segments, identifier, k) ==
    IF k > Len(segments) THEN <<>>
    ELSE LET start == segments[k][2]
             end == segments[k][3]
             payload_start == start + 4
         IN  IF payload_start > end
             THEN keep_segments_payload_only(original, segments, identifier, k + 1)
             ELSE LET payload_slice == Slice(original, payload_start, end)
                      should_remove == IF identifier.some
                                       THEN starts_with(payload_slice, identifier.val)
                                       ELSE FALSE
                  IN  IF ~should_remove
                      THEN payload_slice
                           \o keep_segments_payload_only(original, segments, identifier, k + 1)
                      ELSE keep_segments_payload_only(original, segments, identifier, k + 1)

RECURSIVE keep_segments_keep_all(_, _, _, _)
keep_segments_keep_all(original, segments, identifier, k) ==
    IF k > Len(segments) THEN <<>>
    ELSE LET start == segments[k][2]
             end == segments[k][3]
             payload_start == start + 4
         IN  IF payload_start > end
             THEN keep_segments_keep_all(original, segments, identifier, k + 1)
             ELSE Slice(original, start, end)
                  \o keep_segments_keep_all(original, segments, identifier, k + 1)

RECURSIVE keep_segments(_, _, _, _)
keep_segments(original, segments, identifier, k) ==
    IF k > Len(segments) THEN <<>>
    ELSE LET start == segments[k][2]
             end == segments[k][3]
             payload_start == start + 4
         IN  IF payload_start > end
             THEN keep_segments(original, segments, identifier, k + 1)
             ELSE LET payload_slice == Slice(original, payload_start, end)
                      should_remove == IF identifier.some
                                       THEN starts_with(payload_slice, identifier.val)
                                       ELSE FALSE
                  IN  IF ~should_remove
                      THEN Slice(original, start, end)
                           \o keep_segments(original, segments, identifier, k + 1)
                      ELSE keep_segments(original, segments, identifier, k + 1)

insert_or_replace_appn(original, app_marker, identifier, payload) ==
    LET sos == find_sos_index(original) IN
    IF ~sos.some THEN InsErr("no SOS marker found in JPEG")
    ELSE LET segments == collect_app_segments(original)
             kept == keep_segments(original, segments, identifier, 1)
             id == IF identifier.some THEN identifier.val ELSE <<>>
             chunked == chunk_payload_with_identifier(payload, id)
         IN  IF chunked.kind = "Panic" THEN InsPanic
             ELSE InsOk(Slice(original, 0, 2)
                        \o kept
                        \o Concat([k \in 1..Len(chunked.chunks) |->
                                     make_app_segment(app_marker, chunked.chunks[k])])
                        \o SliceFrom(original, sos.val))

(***************************************************************************)
(* extract_payload_from_bytes                                              *)
(***************************************************************************)
OkSome(p) == [kind |-> "Some", val |-> p, err |-> "", a |-> 0, b |-> 0]
OkNone == [kind |-> "None", val |-> <<>>, err |-> "", a |-> 0, b |-> 0]
ExtErr(e, x, y) == [kind |-> "Err", val |-> <<>>, err |-> e, a |-> x, b |-> y]

RECURSIVE gather_chunks_skip_short(_, _, _, _, _)
gather_chunks_skip_short(original, segments, identifier, k, chunks) ==
    IF k > Len(segments) THEN [ok |-> TRUE, chunks |-> chunks]
    ELSE LET start == segments[k][2]
             end == segments[k][3]
             payload_start == start + 4
         IN  IF payload_start > end
             THEN gather_chunks_skip_short(original, segments, identifier, k + 1, chunks)
             ELSE LET payload_slice == Slice(original, payload_start, end)
                      hdr_len == Len(identifier) + 4
                      seq_off == Len(identifier)
                  IN  IF ~starts_with(payload_slice, identifier)
                         \/ Len(payload_slice) < hdr_len
                      THEN gather_chunks_skip_short(original, segments, identifier,
                                                    k + 1, chunks)
                      ELSE gather_chunks_skip_short(original, segments, identifier, k + 1,
                             Append(chunks,
                               [seq |-> u16_from_be_bytes(At(payload_slice, seq_off),
                                                          At(payload_slice, seq_off + 1)),
                                total |-> u16_from_be_bytes(At(payload_slice, seq_off + 2),
                                                            At(payload_slice, seq_off + 3)),
                                data |-> SliceFrom(payload_slice, hdr_len)]))

(* first loop: gather (seq, total, chunk_data) of the matching segments *)
RECURSIVE gather_chunks(_, _, _, _, _)
gather_chunks(original, segments, identifier, k, chunks) ==
    IF k > Len(segments) THEN [ok |-> TRUE, chunks |-> chunks]
    ELSE LET start == segments[k][2]
             end == segments[k][3]
             payload_start == start + 4
         IN  IF payload_start > end
             THEN gather_chunks(original, segments, identifier, k + 1, chunks)
             ELSE LET payload_slice == Slice(original, payload_start, end)
                      hdr_len == Len(identifier) + 4
                      seq_off == Len(identifier)
                  IN  IF ~starts_with(payload_slice, identifier)
                      THEN gather_chunks(original, segments, identifier, k + 1, chunks)
                      ELSE IF Len(payload_slice) < hdr_len
                      THEN [ok |-> FALSE, chunks |-> <<>>]
                      ELSE gather_chunks(original, segments, identifier, k + 1,
                             Append(chunks,
                               [seq |-> u16_from_be_bytes(At(payload_slice, seq_off),
                                                          At(payload_slice, seq_off + 1)),
                                total |-> u16_from_be_bytes(At(payload_slice, seq_off + 2),
                                                            At(payload_slice, seq_off + 3)),
                                data |-> SliceFrom(payload_slice, hdr_len)]))

RECURSIVE max_total_last(_, _, _)
max_total_last(chunks, k, cur) ==
    IF k > Len(chunks) THEN cur
    ELSE max_total_last(chunks, k + 1, chunks[k].total)

RECURSIVE max_total(_, _, _)
max_total(chunks, k, cur) ==
    IF k > Len(chunks) THEN cur
    ELSE max_total(chunks, k + 1,
                   IF chunks[k].total > cur THEN chunks[k].total ELSE cur)

Empty == [some |-> FALSE, val |-> <<>>]

RECURSIVE place_chunks_buffer_order(_, _, _, _)
place_chunks_buffer_order(chunks, k, expected_total, placed) ==
    IF k > Len(chunks) THEN [ok |-> TRUE, placed |-> placed, seq |-> 0]
    ELSE LET seq_idx == chunks[k].seq IN
         IF seq_idx >= expected_total
         THEN [ok |-> FALSE, placed |-> placed, seq |-> seq_idx]
         ELSE place_chunks_buffer_order(chunks, k + 1, expected_total,
                IF k <= Len(placed)
                THEN [placed EXCEPT ![k] = Some(chunks[k].data)]
                ELSE placed)

RECURSIVE place_chunks_first_wins(_, _, _, _)
place_chunks_first_wins(chunks, k, expected_total, placed) ==
    IF k > Len(chunks) THEN [ok |-> TRUE, placed |-> placed, seq |-> 0]
    ELSE LET seq_idx == chunks[k].seq IN
         IF seq_idx >= expected_total
         THEN [ok |-> FALSE, placed |-> placed, seq |-> seq_idx]
         ELSE place_chunks_first_wins(chunks, k + 1, expected_total,
                IF placed[seq_idx + 1].some THEN placed
                ELSE [placed EXCEPT ![seq_idx + 1] = Some(chunks[k].data)])

(* second loop: place chunks by seq; stops at the first seq out of range *)
RECURSIVE place_chunks(_, _, _, _)
place_chunks(chunks, k, expected_total, placed) ==
    IF k > Len(chunks) THEN [ok |-> TRUE, placed |-> placed, seq |-> 0]
    ELSE LET seq_idx == chunks[k].seq IN
         IF seq_idx >= expected_total
         THEN [ok |-> FALSE, placed |-> placed, seq |-> seq_idx]
         ELSE place_chunks(chunks, k + 1, expected_total,
                           [placed EXCEPT ![seq_idx + 1] = Some(chunks[k].data)])

RECURSIVE first_missing_one_based(_, _)
first_missing_one_based(placed, k) ==
    IF k > Len(placed) THEN NoIndex
    ELSE IF ~placed[k].some THEN Some(k)
    ELSE first_missing_one_based(placed, k + 1)

RECURSIVE first_missing(_, _)
first_missing(placed, k) ==
    IF k > Len(placed) THEN NoIndex
    ELSE IF ~placed[k].some THEN Some(k - 1)
    ELSE first_missing(placed, k + 1)

extract_payload_from_bytes(original, identifier) ==
    LET segments == collect_app_segments(original)
        gathered == gather_chunks(original, segments, identifier, 1, <<>>)
    IN  IF ~gathered.ok
        THEN ExtErr("found matching segment with too-small header", 0, 0)
        ELSE LET chunks == gathered.chunks IN
        IF chunks = <<>> THEN OkNone
        ELSE LET expected_total == max_total(chunks, 1, 0) IN
        IF expected_total = 0 THEN ExtErr("invalid total=0 in headers", 0, 0)
        ELSE LET p == place_chunks(chunks, 1, expected_total,
                                   [k \in 1..expected_total |-> Empty])
        IN  IF ~p.ok THEN ExtErr("chunk seq >= total", p.seq, expected_total)
            ELSE LET miss == first_missing(p.placed, 1) IN
            IF miss.some THEN ExtErr("missing chunk", miss.val, 0)
            ELSE OkSome(Concat([k \in 1..expected_total |-> p.placed[k].val]))

(* extract_payload_from_bytes on the segments made of the chunks that     *)
(* chunk_headers describes, as the outcome of its checks in their order;   *)
(* once every sequence field is below expected_total the slots filled are *)
(* as many as there are distinct sequence fields                          *)
reassemble_headers(h) ==
    IF h.count = 0 THEN "None"
    ELSE LET expected_total == CHOOSE t \in h.totals : \A u \in h.totals : u <= t
         IN  IF expected_total = 0 THEN "invalid total=0 in headers"
             ELSE IF h.seq_ge_total > 0 THEN "chunk seq >= total"
             ELSE IF h.distinct_seqs < expected_total THEN "missing chunk"
             ELSE "Some"

(***************************************************************************)
(* Bitstream framing shared by the LSB codecs: 32-bit big-endian length    *)
(* header, then each byte MSB-first.                                       *)
(***************************************************************************)
(* A u32 is kept as its two 16-bit halves: TLC integers stop at 2^31 - 1. *)
as_u32(n) == [hi |-> (n \div 65536) % 65536, lo |-> n % 65536]

usize_of_u32(v) == v.hi * 65536 + v.lo

(* for i in (0..width).rev() { bits.push(((v >> i) & 1) as u8); } *)
bits_msb_first(v, width) ==
    [k \in 1..width |-> (v \div (2 ^ (width - k))) % 2]

bits_lsb_first(v, width) ==
    [k \in 1..width |-> (v \div (2 ^ (k - 1))) % 2]

(* v = (v << 1) | bits[from + j] for j in 0..n, in a register of 2^width *)
RECURSIVE shift_in(_, _, _, _, _)
shift_in(bits, from, n, acc, modulus) ==
    IF n = 0 THEN acc
    ELSE shift_in(bits, from + 1, n - 1,
                  ((acc * 2) % modulus) + (At(bits, from) % 2), modulus)

(* for i in (0..32).rev() { bits.push(((len >> i) & 1) as u8); } *)
u32_bits_msb_first(v) == bits_msb_first(v.hi, 16) \o bits_msb_first(v.lo, 16)

(* for i in 0..32 { len = (len << 1) | bits[i] as u32; } *)
read_u32(bits) ==
    [hi |-> shift_in(bits, 0, 16, 0, 65536), lo |-> shift_in(bits, 16, 16, 0, 65536)]

(* bits.len() < 32 + (len as usize) * 8, for bits.len() >= 32; a length of *)
(* 2^28 or more needs at least 2^31 bits, more than any buffer here holds  *)
payload_truncated(nbits, len) ==
    IF len.hi >= 4096 THEN TRUE
    ELSE nbits - 32 < usize_of_u32(len) * 8

(* the byte loop of the find functions *)
decode_bytes(bits, start, len) ==
    [k \in 1..len |-> shift_in(bits, start + (k - 1) * 8, 8, 0, 256)]

(* String::from_utf8 accepts exactly the well-formed UTF-8 byte sequences *)
RECURSIVE IsValidUtf8(_)
IsValidUtf8(bytes) ==
    LET n == Len(bytes)
        cont(k) == k <= n /\ bytes[k] >= 128 /\ bytes[k] <= 191
        b1 == bytes[1]
    IN  IF n = 0 THEN TRUE
        ELSE IF b1 <= 127 THEN IsValidUtf8(SubSeq(bytes, 2, n))
        ELSE IF b1 >= 194 /\ b1 <= 223
        THEN cont(2) /\ IsValidUtf8(SubSeq(bytes, 3, n))
        ELSE IF b1 >= 224 /\ b1 <= 239
        THEN /\ cont(2) /\ cont(3)
             /\ (b1 = 224 => bytes[2] >= 160)
             /\ (b1 = 237 => bytes[2] <= 159)
             /\ IsValidUtf8(SubSeq(bytes, 4, n))
        ELSE IF b1 >= 240 /\ b1 <= 244
        THEN /\ cont(2) /\ cont(3) /\ cont(4)
             /\ (b1 = 240 => bytes[2] >= 144)
             /\ (b1 = 244 => bytes[2] <= 143)
             /\ IsValidUtf8(SubSeq(bytes, 5, n))
        ELSE FALSE

(***************************************************************************)
(* marker_hijacking.rs, the text wrappers hide and find: the payload is a  *)
(* 4-byte big-endian length followed by the message bytes, multiplexed     *)
(* under APP11 and the identifier "Ducky\0".                               *)
(***************************************************************************)
APP11 == 235
Ducky == <<68, 117, 99, 107, 121, 0>>

FindOk(v) == [kind |-> "Ok", val |-> v, err |-> ""]
FindErr(e) == [kind |-> "Err", val |-> <<>>, err |-> e]

(* (msg_bytes.len() as u32).to_be_bytes() *)
u32_to_be_bytes(v) == u16_to_be_bytes(v.hi) \o u16_to_be_bytes(v.lo)

(* u32::from_be_bytes([payload[0], payload[1], payload[2], payload[3]]) *)
u32_from_be_bytes(b0, b1, b2, b3) ==
    [hi |-> u16_from_be_bytes(b0, b1), lo |-> u16_from_be_bytes(b2, b3)]

jpg_payload(msg) == u32_to_be_bytes(as_u32(Len(msg))) \o msg

TxtOk == [kind |-> "Ok", err |-> ""]
TxtErr(e) == [kind |-> "Err", err |-> e]

(* the result and the insert_or_replace_appn call made (res is the insert  *)
(* result, from which the output file is written when it is Ok)            *)
jpg_hide(file, msg) ==
    IF ~file.exists
    THEN [res |-> TxtErr("Path doesn't exist!"), inserted |-> FALSE,
          ins |-> InsErr("")]
    ELSE LET r == insert_or_replace_appn(file.bytes, APP11, Some(Ducky),
                                         jpg_payload(msg))
         IN  [res |-> IF r.kind = "Ok" THEN TxtOk ELSE TxtErr(r.err),
              inserted |-> TRUE, ins |-> r]

(* payload.len() < 4 + len; a declared length of 2^30 or more exceeds any  *)
(* payload held here                                                       *)
jpg_payload_short(payload_len, len) ==
    IF len.hi >= 16384 THEN TRUE
    ELSE payload_len < 4 + usize_of_u32(len)

jpg_find(file) ==
    IF ~file.exists THEN FindErr("Path doesn't exist!")
    ELSE LET opt_payload == extract_payload_from_bytes(file.bytes, Ducky) IN
         IF opt_payload.kind = "Err" THEN FindErr(opt_payload.err)
         ELSE IF opt_payload.kind = "None" THEN FindErr("no matching segments found")
         ELSE LET payload == opt_payload.val IN
              IF Len(payload) < 4
              THEN FindErr("payload too small to contain length header")
              ELSE LET len == u32_from_be_bytes(At(payload, 0), At(payload, 1),
                                                At(payload, 2), At(payload, 3))
                   IN  IF jpg_payload_short(Len(payload), len)
                       THEN FindErr("payload shorter than claimed length")
                       ELSE LET msg_bytes == Slice(payload, 4, 4 + usize_of_u32(len))
                            IN  IF IsValidUtf8(msg_bytes) THEN FindOk(msg_bytes)
                                ELSE FindErr("<invalid utf8>")

(***************************************************************************)
(* audio/wav/lsb.rs.  A WAV file is its format descriptor and its samples  *)
(* (i16 values, -32768..32767).                                            *)
(***************************************************************************)
NoWav == [exists |-> FALSE, sample_format |-> "Int", bits_per_sample |-> 16,
          samples |-> <<>>]

WavFile(fmt, depth, samples) ==
    [exists |-> TRUE, sample_format |-> fmt, bits_per_sample |-> depth,
     samples |-> samples]

i16_as_u16(s) == IF s < 0 THEN s + 65536 ELSE s
u16_as_i16(u) == IF u >= 32768 THEN u - 65536 ELSE u

(* (s & !1) | (bit as i16) *)
set_lsb_i16(s, bit) ==
    LET u == i16_as_u16(s)
        cleared == u - (u % 2)
    IN  u16_as_i16(cleared + bit)

(* (s as u16 & 1) as u8 *)
lsb_i16(s) == i16_as_u16(s) % 2

frame_bits_lsb_first(msg) ==
    u32_bits_msb_first(as_u32(Len(msg)))
    \o Concat([k \in 1..Len(msg) |-> bits_lsb_first(msg[k], 8)])

frame_bits(msg) ==
    u32_bits_msb_first(as_u32(Len(msg)))
    \o Concat([k \in 1..Len(msg) |-> bits_msb_first(msg[k], 8)])

embed_samples_clobber(samples, bits) ==
    [i \in 1..Len(samples) |->
       IF i <= Len(bits) THEN bits[i] ELSE samples[i]]

(* for (i, bit) in bits.iter().enumerate() { samples[i] = set LSB } *)
embed_samples(samples, bits) ==
    [i \in 1..Len(samples) |->
       IF i <= Len(bits) THEN set_lsb_i16(samples[i], bits[i]) ELSE samples[i]]

too_big_ge(bits, units) == Len(bits) >= units

(* bits.len() > samples.len()  /  bits.len() > capacity_bits *)
too_big(bits, units) == Len(bits) > units

LsbOk == [kind |-> "Ok", err |-> "", need |-> 0, have |-> 0]
LsbErr(e, n, h) == [kind |-> "Err", err |-> e, need |-> n, have |-> h]

(* the result, the bit stream built, the sample vector as the call left it *)
(* and the file written (NoWav when nothing is written)                    *)
hide_wav(file, msg) ==
    IF ~file.exists
    THEN [res |-> LsbErr("open failed", 0, 0), bits |-> <<>>, mem |-> <<>>,
          out |-> NoWav]
    ELSE IF file.sample_format # "Int" \/ file.bits_per_sample # 16
    THEN [res |-> LsbErr("Only PCM16 WAV supported", 0, 0), bits |-> <<>>,
          mem |-> file.samples, out |-> NoWav]
    ELSE LET samples == file.samples
             bits == frame_bits(msg)
         IN  IF too_big(bits, Len(samples))
             THEN [res |-> LsbErr("Too big", Len(bits), Len(samples)),
                   bits |-> bits, mem |-> samples, out |-> NoWav]
             ELSE LET embedded == embed_samples(samples, bits)
                  IN  [res |-> LsbOk, bits |-> bits, mem |-> embedded,
                       out |-> WavFile(file.sample_format, file.bits_per_sample,
                                       embedded)]

find_wav(file) ==
    IF ~file.exists THEN FindErr("open failed")
    ELSE IF file.sample_format # "Int" \/ file.bits_per_sample # 16
    THEN FindErr("Only PCM16 WAV supported")
    ELSE LET samples == file.samples
             bits == [i \in 1..Len(samples) |-> lsb_i16(samples[i])]
         IN  IF Len(bits) < 32 THEN FindErr("Too short for header")
             ELSE LET len == read_u32(bits)
                  IN  IF payload_truncated(Len(bits), len)
                      THEN FindErr("Truncated payload")
                      ELSE FindOk(decode_bytes(bits, 32, usize_of_u32(len)))

(***************************************************************************)
(* main.rs, the audio branches of the Hide and Find commands.              *)
(***************************************************************************)
(* Hide: the 32-bit length of the message and its bytes MSB-first, one     *)
(* element (0 or 1) per bit                                                *)
cli_frame_bits(message) ==
    u32_bits_msb_first(as_u32(Len(message)))
    \o Concat([k \in 1..Len(message) |-> bits_msb_first(message[k], 8)])

(* Hide: hide_wav(in_path, out_path, &bits) *)
cli_audio_hide(file, message) == hide_wav(file, cli_frame_bits(message))

RECURSIVE BitOr(_, _)
BitOr(a, b) ==
    IF a = 0 THEN b
    ELSE IF b = 0 THEN a
    ELSE (IF a % 2 = 1 \/ b % 2 = 1 THEN 1 ELSE 0) + 2 * BitOr(a \div 2, b \div 2)

(* len = (len << 1) | (bits[i] as u32), for i in 0..32 *)
RECURSIVE cli_read_u32(_, _, _)
cli_read_u32(bits, i, len) ==
    IF i = 32 THEN len
    ELSE cli_read_u32(bits, i + 1,
           [hi |-> ((len.hi * 2) % 65536) + (len.lo \div 32768),
            lo |-> BitOr((len.lo * 2) % 65536, At(bits, i))])

CliOk(output) == [kind |-> "Ok", val |-> output, err |-> ""]
CliExit(e) == [kind |-> "Exit", val |-> <<>>, err |-> e]
CliPanic == [kind |-> "Panic", val |-> <<>>, err |-> "index out of bounds"]

(* the bytes of "<invalid utf8>" *)
InvalidUtf8Text == <<60, 105, 110, 118, 97, 108, 105, 100, 32, 117, 116, 102, 56, 62>>

(* Find: find_wav, then its result decoded as a framed bit vector; the     *)
(* byte loop indexes bits[base + j] without a length check, so a declared  *)
(* length that needs more elements than there are aborts the process       *)
cli_audio_find(file) ==
    LET r == find_wav(file) IN
    IF r.kind = "Err" THEN CliExit("find failed")
    ELSE LET bits == r.val IN
         IF Len(bits) < 32 THEN CliExit("Not enough data for header")
         ELSE LET len == cli_read_u32(bits, 0, as_u32(0)) IN
              IF payload_truncated(Len(bits), len) THEN CliPanic
              ELSE LET bytes == decode_bytes(bits, 32, usize_of_u32(len))
                   IN  CliOk(IF IsValidUtf8(bytes) THEN bytes ELSE InvalidUtf8Text)

(***************************************************************************)
(* picture/general/lsb.rs.  An image file is the RGBA8 buffer the decoder  *)
(* and to_rgba8 produce, 4 bytes per pixel; the output format is taken to  *)
(* store that buffer losslessly.                                           *)
(***************************************************************************)
NoImg == [exists |-> FALSE, w |-> 0, h |-> 0, buf |-> <<>>]

ImgFile(w, h, buf) == [exists |-> TRUE, w |-> w, h |-> h, buf |-> buf]

general_frame_bits(msg) ==
    u32_bits_msb_first(as_u32(Len(msg)))
    \o Concat([k \in 1..Len(msg) |-> bits_msb_first(msg[k], 8)])

(* chunk[c] = (chunk[c] & !1) | (bit & 1) *)
set_lsb_u8(v, bit) == (v - (v % 2)) + (bit % 2)

(* chunks_mut(bytes_per_pixel), channels 0..3 of each chunk, one bit each *)
embed_pixels(buf, bits, bytes_per_pixel) ==
    [j \in 1..Len(buf) |->
       LET pixel == (j - 1) \div bytes_per_pixel
           c == (j - 1) % bytes_per_pixel
           i == pixel * 3 + c
       IN  IF c < 3 /\ i < Len(bits) THEN set_lsb_u8(buf[j], At(bits, i))
           ELSE buf[j]]

general_lsb_hide(file, msg) ==
    IF ~file.exists
    THEN [res |-> LsbErr("Path doesn't exist!", 0, 0), bits |-> <<>>,
          mem |-> <<>>, out |-> NoImg]
    ELSE LET bytes_per_pixel == 4
             bits == general_frame_bits(msg)
             pixels == file.w * file.h
             capacity_bits == pixels * 3
         IN  IF too_big(bits, capacity_bits)
             THEN [res |-> LsbErr("Message too big", Len(bits), capacity_bits),
                   bits |-> bits, mem |-> file.buf, out |-> NoImg]
             ELSE LET embedded == embed_pixels(file.buf, bits, bytes_per_pixel)
                  IN  [res |-> LsbOk, bits |-> bits, mem |-> embedded,
                       out |-> ImgFile(file.w, file.h, embedded)]

collect_lsbs_gba(buf, bytes_per_pixel) ==
    Concat([p \in 1..(Len(buf) \div bytes_per_pixel) |->
              << At(buf, (p - 1) * bytes_per_pixel + 1) % 2,
                 At(buf, (p - 1) * bytes_per_pixel + 2) % 2,
                 At(buf, (p - 1) * bytes_per_pixel + 3) % 2 >>])

(* for chunk in buf.chunks(bytes_per_pixel): chunk[0] & 1, chunk[1] & 1, ... *)
collect_lsbs(buf, bytes_per_pixel) ==
    Concat([p \in 1..(Len(buf) \div bytes_per_pixel) |->
              << At(buf, (p - 1) * bytes_per_pixel) % 2,
                 At(buf, (p - 1) * bytes_per_pixel + 1) % 2,
                 At(buf, (p - 1) * bytes_per_pixel + 2) % 2 >>])

general_lsb_find(file) ==
    IF ~file.exists THEN FindErr("Path doesn't exist!")
    ELSE LET bytes_per_pixel == 4
             bits == collect_lsbs(file.buf, bytes_per_pixel)
         IN  IF Len(bits) < 32 THEN FindErr("Image too small to contain header")
             ELSE LET len == read_u32(bits)
                  IN  IF payload_truncated(Len(bits), len)
                      THEN FindErr("Image does not contain full message")
                      ELSE LET bytes == decode_bytes(bits, 32, usize_of_u32(len))
                           IN  IF IsValidUtf8(bytes) THEN FindOk(bytes)
                               ELSE FindErr("<invalid utf8>")

(***************************************************************************)
(* picture/lsb.rs, the PNG-native codec.  A PNG file is its colour type    *)
(* and the decoded frame buffer at 8 bits per sample, samples() bytes per  *)
(* pixel.                                                                  *)
(***************************************************************************)
NoPng == [exists |-> FALSE, color_type |-> "Rgb", w |-> 0, h |-> 0, buf |-> <<>>]

PngFile(color_type, w, h, buf) ==
    [exists |-> TRUE, color_type |-> color_type, w |-> w, h |-> h, buf |-> buf]

(* png::ColorType::samples *)
samples(color_type) ==
    IF color_type = "Grayscale" THEN 1
    ELSE IF color_type = "GrayscaleAlpha" THEN 2
    ELSE IF color_type = "Rgb" THEN 3
    ELSE IF color_type = "Rgba" THEN 4
    ELSE 1

LsbPanic == [kind |-> "Panic", err |-> "index out of bounds", need |-> 0, have |-> 0]

(* the embed loop: chunk[c] for c in 0..3 on chunks of bytes_per_pixel     *)
(* bytes; with fewer than 3 bytes per chunk the index c = bytes_per_pixel  *)
(* of the first chunk is out of bounds once a bit is left for it           *)
png_embed(buf, bits, bytes_per_pixel) ==
    IF bytes_per_pixel >= 3 \/ Len(bits) <= bytes_per_pixel \/ buf = <<>>
    THEN [panic |-> FALSE, mem |-> embed_pixels(buf, bits, bytes_per_pixel)]
    ELSE [panic |-> TRUE,
          mem |-> [j \in 1..Len(buf) |->
                     IF j <= bytes_per_pixel THEN set_lsb_u8(buf[j], bits[j])
                     ELSE buf[j]]]

png_hide(file, msg) ==
    IF ~file.exists
    THEN [res |-> LsbErr("Path doesn't exist!", 0, 0), bits |-> <<>>,
          mem |-> <<>>, out |-> NoPng]
    ELSE LET bytes_per_pixel == samples(file.color_type)
             bits == general_frame_bits(msg)
             pixels == Len(file.buf) \div bytes_per_pixel
             capacity_bits == pixels * 3
         IN  IF too_big(bits, capacity_bits)
             THEN [res |-> LsbErr("Message too big", Len(bits), capacity_bits),
                   bits |-> bits, mem |-> file.buf, out |-> NoPng]
             ELSE LET e == png_embed(file.buf, bits, bytes_per_pixel)
                  IN  IF e.panic
                      THEN [res |-> LsbPanic, bits |-> bits, mem |-> e.mem,
                            out |-> NoPng]
                      ELSE [res |-> LsbOk, bits |-> bits, mem |-> e.mem,
                            out |-> PngFile(file.color_type, file.w, file.h, e.mem)]

(***************************************************************************)
(* Carriers and inputs of the marker model.                                *)
(***************************************************************************)
MaxRehide == 1

ShortId == <<68>>
LongId == [i \in 1..(MAX_SEGMENT_PAYLOAD - 4) |-> 65]

(* payload of a tagged segment: identifier + seq + total + data *)
tagged(identifier, seq, total, data) ==
    identifier \o u16_to_be_bytes(seq) \o u16_to_be_bytes(total) \o data

ScanTail == <<255, 218, 0, 0, 17, 34, 51>> \o <<255, 217>>

(* tests::build_dummy_jpeg: SOI, the segments, SOS with scan bytes, EOI *)
build_dummy_jpeg(app_segments) ==
    SOI
    \o Concat([k \in 1..Len(app_segments) |->
                 make_app_segment(app_segments[k][1], app_segments[k][2])])
    \o ScanTail

(* three chunks of one payload and an unrelated segment *)
Chunks3 == << <<235, tagged(Ducky, 0, 3, <<1>>)>>,
              <<235, tagged(Ducky, 1, 3, <<2, 2>>)>>,
              <<235, tagged(Ducky, 2, 3, <<3>>)>> >>

Unrelated == <<225, <<120>>>>

Orders3 == { <<1, 2, 3>>, <<1, 3, 2>>, <<2, 1, 3>>,
             <<2, 3, 1>>, <<3, 1, 2>>, <<3, 2, 1>> }

(* the chunks in order p with the unrelated segment after the first g *)
Interleaved(p, g) ==
    LET t == [k \in 1..3 |-> Chunks3[p[k]]]
    IN  SubSeq(t, 1, g) \o <<Unrelated>> \o SubSeq(t, g + 1, 3)

ReorderedCarriers ==
    { build_dummy_jpeg(Interleaved(p, g)) : p \in Orders3, g \in {0, 2} }

Carriers ==
    ReorderedCarriers \cup
    { build_dummy_jpeg(<<>>),
      build_dummy_jpeg(<< <<225, <<74, 70>>>>,
                          <<235, tagged(Ducky, 0, 1, <<111, 108, 100>>)>> >>),
      build_dummy_jpeg(<< <<226, <<69, 88>>>>,
                          <<235, tagged(Ducky, 0, 2, <<112, 65>>)>>,
                          <<235, tagged(Ducky, 1, 2, <<112, 66>>)>> >>),
      build_dummy_jpeg(<< <<235, tagged(Ducky, 0, 2, <<111, 110>>)>> >>),
      build_dummy_jpeg(<< <<235, tagged(Ducky, 5, 2, <<120>>)>> >>),
      build_dummy_jpeg(<< <<235, tagged(Ducky, 0, 0, <<120>>)>> >>),
      build_dummy_jpeg(<< <<235, Ducky \o <<0>>>> >>),
      build_dummy_jpeg(<< <<225, <<255, 218, 1>>>> >>),
      build_dummy_jpeg(<< <<235, tagged(Ducky, 0, 1, <<97>>)>>,
                          <<235, tagged(Ducky, 0, 1, <<98, 98>>)>> >>),
      build_dummy_jpeg(<< <<235, tagged(Ducky, 1, 2, <<66>>)>>,
                          <<225, <<120>>>>,
                          <<235, tagged(Ducky, 0, 2, <<65>>)>> >>),
      build_dummy_jpeg(<< <<235, tagged(Ducky, 0, 1, <<65>>)>>,
                          <<235, tagged(Ducky, 1, 2, <<66>>)>> >>),
      build_dummy_jpeg(<< <<235, tagged(Ducky, 0, 1, <<65>>)>>,
                          <<235, tagged(Ducky, 1, 2, <<66>>)>>,
                          <<235, tagged(Ducky, 2, 1, <<67>>)>> >>),
      build_dummy_jpeg(<< <<235, tagged(Ducky, 1, 2, <<97>>)>>,
                          <<235, tagged(Ducky, 0, 2, <<98>>)>>,
                          <<225, <<120>>>>,
                          <<235, tagged(Ducky, 1, 2, <<99, 99>>)>> >>),
      (* a length prefix of 1 and a byte that is not UTF-8 *)
      build_dummy_jpeg(<< <<235, tagged(Ducky, 0, 1, <<0, 0, 0, 1, 255>>)>> >>),
      (* a length prefix of 5 and one byte *)
      build_dummy_jpeg(<< <<235, tagged(Ducky, 0, 1, <<0, 0, 0, 5, 65>>)>> >>),
      (* a length prefix of 1 and two bytes *)
      build_dummy_jpeg(<< <<235, tagged(Ducky, 0, 1, <<0, 0, 0, 1, 65, 66>>)>> >>),
      build_dummy_jpeg(<< <<236, tagged(ShortId, 0, 1, <<7>>)>>,
                          <<225, <<68, 117>>>> >>),
      (* a segment whose length field is 0, then a well-formed one *)
      SOI \o <<255, 225, 0, 0>> \o make_app_segment(226, <<65, 66>>) \o ScanTail,
      (* a segment whose length field is 1 *)
      SOI \o <<255, 225, 0, 1>> \o make_app_segment(235, tagged(Ducky, 0, 1, <<9>>))
          \o ScanTail,
      (* padding, a stuffed byte and a restart marker between segments *)
      SOI \o <<17, 255, 0, 255, 208>> \o make_app_segment(225, <<65>>) \o <<34>>
          \o make_app_segment(235, tagged(Ducky, 0, 1, <<9, 9>>)) \o ScanTail,
      (* tagged bytes inside the scan data *)
      SOI \o <<255, 218, 0, 0>> \o make_app_segment(235, tagged(Ducky, 0, 1, <<9>>))
          \o <<255, 217>>,
      (* no start-of-scan marker *)
      SOI,
      SOI \o make_app_segment(225, <<65>>)
          \o make_app_segment(235, tagged(Ducky, 0, 1, <<104, 105>>)),
      (* a length field that runs past the end of the buffer *)
      SOI \o make_app_segment(235, tagged(Ducky, 0, 1, <<104>>))
          \o <<255, 225, 0, 16, 65>> }

(* buffers for the scanners: SOI followed by up to MaxScanLen bytes drawn   *)
(* from marker bytes, 0xFF, and the length bytes 0 and 1; the carriers;    *)
(* buffers shorter than SOI; segments with length fields 0, 1 and 2        *)
(* followed by a start-of-scan marker                                      *)
MaxScanLen == 4

ScanCases ==
    { <<>>, <<255>>, SOI,
      SOI \o <<255, 225, 0, 0, 255, 218, 0, 0>>,
      SOI \o <<255, 225, 0, 1, 255, 218, 0, 0>>,
      SOI \o <<255, 225, 0, 2, 255, 255, 0, 0, 255, 208, 255, 218>>,
      SOI \o <<255, 255, 255, 255, 255, 255, 255>>,
      SOI \o <<255, 225, 0, 3, 9, 7, 255, 0, 255, 254, 0, 1, 255, 218, 5>> }

ScanBuffers ==
    {SOI \o w : w \in UNION {[1..k -> {0, 1, 218, 225, 255}] : k \in 0..MaxScanLen}}
    \cup Carriers \cup ScanCases

(* messages of the text wrapper (a &str) *)
JpgMsgs == {<<>>, <<104, 105>>, <<195, 169, 33>>}

Markers == {235, 218, 208}
Ids == {<<>>, ShortId, Ducky}
NewPayload == <<78, 69, 87>>

(* three chunks under Ducky; 0xFF 0xDA straddles the first chunk boundary *)
MultiLen == 2 * max_body_of(Ducky) + 1
MultiPayload == [i \in 1..MultiLen |->
                   IF i = max_body_of(Ducky) THEN 255
                   ELSE IF i = max_body_of(Ducky) + 1 THEN 218
                   ELSE 64 + i]

(* exactly two full chunks under Ducky *)
ExactPayload == [i \in 1..(2 * max_body_of(Ducky)) |-> 96 + i]

Payloads == {<<>>, <<7>>, <<255, 218, 9>>, NewPayload, MultiPayload, ExactPayload}

HideInputs ==
    { <<m, Some(id), P>> : m \in Markers, id \in Ids, P \in Payloads }
    \cup { <<235, NoId, <<7>>>>,
           <<235, Some(LongId), <<7>>>> }

(***************************************************************************)
(* Carriers and inputs of the LSB models.                                  *)
(***************************************************************************)
MaxMsgLen == 2

SeqsUpTo(S, n) == UNION {[1..k -> S] : k \in 0..n}

(* 32 elements that read as the header of a one-byte message, nothing after *)
HeaderOnlyMsg == [i \in 1..32 |-> IF i = 32 THEN 1 ELSE 0]

(* 40 elements that read as the framed one-byte message 0xFF *)
InvalidUtf8Bits == cli_frame_bits(<<255>>)

WavMsgs == SeqsUpTo({0, 65, 255}, MaxMsgLen) \cup {HeaderOnlyMsg, InvalidUtf8Bits}

(* messages of the command line (a String) *)
CliMessages == {<<>>, <<65>>, <<195, 169>>}

(* samples needed by the Hide command for a message of n bytes *)
CliSamples(n) == 32 + 8 * (32 + 8 * n)

WavLengths ==
    {0, 10} \cup {32 + 8 * k + d : k \in 0..MaxMsgLen, d \in {-1, 0, 1}}
    \cup {CliSamples(0), CliSamples(1) - 1, CliSamples(1)}

WavPatterns == {"silence", "ones", "mixed"}

wav_sample(pattern, i) ==
    IF pattern = "silence" THEN 0
    ELSE IF pattern = "ones" THEN -1
    ELSE ((i * 7919 + 13) % 65536) - 32768

WavCarriers ==
    { WavFile("Int", 16, [i \in 1..n |-> wav_sample(pat, i)]) :
        n \in WavLengths, pat \in WavPatterns }
    \cup { WavFile("Float", 32, [i \in 1..40 |-> 0]),
           WavFile("Int", 8, [i \in 1..40 |-> 0]) }

ImgMsgs == {m \in SeqsUpTo({0, 65, 195, 169}, MaxMsgLen) : IsValidUtf8(m)}

ImgPixelCounts ==
    UNION { {(32 + 8 * k - 1) \div 3, (32 + 8 * k + 2) \div 3} : k \in 0..MaxMsgLen }

ImgPatterns == {"test", "bright"}

(* tests::create_test_png pixels (opaque after to_rgba8), and a second fill *)
img_byte(pattern, j) ==
    LET i == (j - 1) \div 4
        c == (j - 1) % 4
    IN  IF pattern = "test"
        THEN (IF c = 3 THEN 255 ELSE (i * 3 + c) % 256)
        ELSE (IF c = 0 THEN 255 ELSE IF c = 1 THEN 254 ELSE IF c = 2 THEN 1
              ELSE (i * 37) % 256)

(* an image whose low bits hold the framed one-byte message 0xFF *)
InvalidUtf8Img ==
    ImgFile(14, 1, embed_pixels([j \in 1..56 |-> img_byte("test", j)],
                                general_frame_bits(<<255>>), 4))

ImgCarriers ==
    { ImgFile(n, 1, [j \in 1..(4 * n) |-> img_byte(pat, j)]) :
        n \in ImgPixelCounts, pat \in ImgPatterns }
    \cup {InvalidUtf8Img}

PngColorTypes == {"Grayscale", "GrayscaleAlpha", "Rgb", "Rgba"}

PngPixelCounts == {4, 11, 14}

PngMsgs == {<<>>, <<65>>}

PngCarriers ==
    { PngFile(ct, n, 1, [j \in 1..(n * samples(ct)) |-> (j * 37 + 5) % 256]) :
        ct \in PngColorTypes, n \in PngPixelCounts }

(* an identifier that leaves one byte of body per chunk *)
WrapId == [i \in 1..(MAX_SEGMENT_PAYLOAD - 5) |-> 66]

ChunkIds == {<<>>, Ducky, WrapId, LongId}

ChunkLens(identifier) ==
    LET mb == max_body_of(identifier)
    IN  {0, 1, mb, mb + 1, 3 * mb}
        \cup (IF identifier \in {Ducky, WrapId}
              THEN {65535 * mb, 65535 * mb + 1, 65536 * mb + 1} ELSE {})

NoChunk == [pending |-> FALSE, called |-> FALSE, payload_len |-> 0, identifier |-> <<>>,
            kind |-> "Ok", count |-> 0, totals |-> {}, seq_wrong |-> 0,
            seq_ge_total |-> 0, body_lens |-> {}, last_len |-> 0,
            reassembly |-> "None"]

NoScan == [active |-> FALSE, fn |-> "", buf |-> <<>>, i |-> 2, prev |-> 2,
           looped |-> FALSE, read |-> -1, done |-> FALSE, found |-> NoIndex,
           res |-> <<>>]

NoFile == [exists |-> FALSE, bytes |-> <<>>]
JpgFile(b) == [exists |-> TRUE, bytes |-> b]
NoHide == [called |-> FALSE, src |-> "in", orig |-> <<>>, marker |-> 0,
           id |-> NoId, payload |-> <<>>, res |-> InsErr("")]
NoFind == [called |-> FALSE, src |-> "in", id |-> <<>>, res |-> OkNone]
NoTxtHide == [called |-> FALSE, msg |-> <<>>, res |-> TxtOk]
NoTxtFind == [called |-> FALSE, src |-> "in", res |-> FindErr("")]

NoLsbHide == [called |-> FALSE, msg |-> <<>>, res |-> LsbOk, bits |-> <<>>,
              mem |-> <<>>]
NoLsbFind == [called |-> FALSE, src |-> "in", res |-> FindErr("")]
NoCliHide == [called |-> FALSE, message |-> <<>>]
NoCliFind == [called |-> FALSE, src |-> "in", res |-> CliExit("")]

(***************************************************************************)
(* State.  Each carrier kind has its input file, its output file, the last *)
(* hide call and the last find call.  A session works on one carrier: one  *)
(* hide, for JPEG at most MaxRehide further hides of the output onto       *)
(* itself, and one find.                                                   *)
(***************************************************************************)
IdleMarker ==
    /\ jpgIn = NoFile /\ jpgOut = NoFile /\ hid = NoHide /\ fnd = NoFind
    /\ rehides = 0
    /\ txtHid = NoTxtHide /\ txtFnd = NoTxtFind

IdleWav ==
    /\ wavIn = NoWav /\ wavOut = NoWav /\ wavHid = NoLsbHide /\ wavFnd = NoLsbFind
    /\ cliHid = NoCliHide /\ cliFnd = NoCliFind

IdleImg ==
    /\ imgIn = NoImg /\ imgOut = NoImg /\ imgHid = NoLsbHide /\ imgFnd = NoLsbFind

IdlePng == pngIn = NoPng /\ pngOut = NoPng /\ pngHid = NoLsbHide

IdleChunk == chk = NoChunk

IdleScan == scan = NoScan

InitMarker ==
    /\ jpgIn \in {JpgFile(b) : b \in Carriers}
    /\ jpgOut = NoFile
    /\ hid = NoHide
    /\ fnd = NoFind
    /\ rehides = 0
    /\ txtHid = NoTxtHide
    /\ txtFnd = NoTxtFind
    /\ IdleWav /\ IdleImg /\ IdlePng /\ IdleChunk /\ IdleScan

InitWav ==
    /\ wavIn \in WavCarriers
    /\ wavOut = NoWav
    /\ wavHid = NoLsbHide
    /\ wavFnd = NoLsbFind
    /\ cliHid = NoCliHide
    /\ cliFnd = NoCliFind
    /\ IdleMarker /\ IdleImg /\ IdlePng /\ IdleChunk /\ IdleScan

InitImg ==
    /\ imgIn \in ImgCarriers
    /\ imgOut = NoImg
    /\ imgHid = NoLsbHide
    /\ imgFnd = NoLsbFind
    /\ IdleMarker /\ IdleWav /\ IdlePng /\ IdleChunk /\ IdleScan

InitPng ==
    /\ pngIn \in PngCarriers
    /\ pngOut = NoPng
    /\ pngHid = NoLsbHide
    /\ IdleMarker /\ IdleWav /\ IdleImg /\ IdleChunk /\ IdleScan

(* a call of chunk_payload_with_identifier waiting to run *)
InitChunk ==
    /\ chk \in { [NoChunk EXCEPT !.pending = TRUE, !.payload_len = n,
                                  !.identifier = id] :
                    id \in ChunkIds, n \in UNION {ChunkLens(i) : i \in ChunkIds} }
    /\ chk.payload_len \in ChunkLens(chk.identifier)
    /\ IdleMarker /\ IdleWav /\ IdleImg /\ IdlePng /\ IdleScan

(* a scanner called on a buffer, before its first iteration (let mut i = 2) *)
InitScan ==
    /\ scan \in { [NoScan EXCEPT !.active = TRUE, !.fn = fn, !.buf = b] :
                     fn \in {"find_sos_index", "collect_app_segments"},
                     b \in ScanBuffers }
    /\ IdleMarker /\ IdleWav /\ IdleImg /\ IdlePng /\ IdleChunk

Init == InitMarker \/ InitWav \/ InitImg \/ InitPng \/ InitChunk \/ InitScan

FileOf(src) == IF src = "in" THEN jpgIn.bytes ELSE jpgOut.bytes

(* hide_payload_file: read the input, insert_or_replace_appn, write *)
DoHide(src, m, id, P) ==
    LET original == FileOf(src)
        r == insert_or_replace_appn(original, m, id, P)
    IN  /\ hid' = [called |-> TRUE, src |-> src, orig |-> original, marker |-> m,
                   id |-> id, payload |-> P, res |-> r]
        /\ jpgOut' = IF r.kind = "Ok" THEN JpgFile(r.val) ELSE jpgOut
        /\ fnd' = NoFind
        /\ UNCHANGED jpgIn

HidePayloadFile ==
    /\ jpgIn.exists
    /\ ~hid.called /\ ~fnd.called /\ ~txtFnd.called
    /\ \E inp \in HideInputs : DoHide("in", inp[1], inp[2], inp[3])
    /\ rehides' = 0
    /\ UNCHANGED <<txtHid, txtFnd, wavVars, imgVars, pngVars, chunkVars, scan>>

(* the same hide run again on its own output file *)
Rehide ==
    /\ hid.called /\ hid.res.kind = "Ok" /\ jpgOut.exists
    /\ ~fnd.called /\ ~txtFnd.called
    /\ rehides < MaxRehide
    /\ \E P \in {hid.payload, NewPayload} : DoHide("out", hid.marker, hid.id, P)
    /\ rehides' = rehides + 1
    /\ UNCHANGED <<txtHid, txtFnd, wavVars, imgVars, pngVars, chunkVars, scan>>

(* extract_payload_file: read the file, extract_payload_from_bytes *)
ExtractPayloadFile ==
    /\ jpgIn.exists
    /\ ~fnd.called /\ ~txtFnd.called
    /\ \E src \in {"in", "out"}, id \in Ids :
         /\ src = "out" => jpgOut.exists
         /\ fnd' = [called |-> TRUE, src |-> src, id |-> id,
                    res |-> extract_payload_from_bytes(FileOf(src), id)]
    /\ UNCHANGED <<jpgIn, jpgOut, hid, rehides, txtHid, txtFnd, wavVars, imgVars, pngVars, chunkVars, scan>>

(* marker_hijacking::hide: the text wrapper; hid records the              *)
(* insert_or_replace_appn call it makes                                    *)
HideJpg ==
    /\ jpgIn.exists
    /\ ~hid.called /\ ~fnd.called /\ ~txtFnd.called
    /\ \E msg \in JpgMsgs :
         LET r == jpg_hide(jpgIn, msg) IN
         /\ txtHid' = [called |-> TRUE, msg |-> msg, res |-> r.res]
         /\ hid' = [called |-> TRUE, src |-> "in", orig |-> jpgIn.bytes,
                    marker |-> APP11, id |-> Some(Ducky),
                    payload |-> jpg_payload(msg), res |-> r.ins]
         /\ jpgOut' = IF r.res.kind = "Ok" THEN JpgFile(r.ins.val) ELSE jpgOut
    /\ rehides' = 0
    /\ UNCHANGED <<jpgIn, fnd, txtFnd, wavVars, imgVars, pngVars, chunkVars, scan>>

(* marker_hijacking::find: the text wrapper *)
FindJpg ==
    /\ jpgIn.exists
    /\ ~fnd.called /\ ~txtFnd.called
    /\ \E src \in {"in", "out"} :
         /\ src = "out" => jpgOut.exists
         /\ txtFnd' = [called |-> TRUE, src |-> src,
                       res |-> jpg_find(IF src = "in" THEN jpgIn ELSE jpgOut)]
    /\ UNCHANGED <<jpgIn, jpgOut, hid, fnd, rehides, txtHid,
                   wavVars, imgVars, pngVars, chunkVars, scan>>

HideWav ==
    /\ wavIn.exists
    /\ ~wavHid.called /\ ~wavFnd.called /\ ~cliFnd.called
    /\ \E msg \in WavMsgs :
         LET r == hide_wav(wavIn, msg) IN
         /\ wavHid' = [called |-> TRUE, msg |-> msg, res |-> r.res,
                       bits |-> r.bits, mem |-> r.mem]
         /\ wavOut' = IF r.res.kind = "Ok" THEN r.out ELSE wavOut
    /\ UNCHANGED <<wavIn, wavFnd, cliHid, cliFnd, markerVars, imgVars, pngVars, chunkVars, scan>>

FindWav ==
    /\ wavIn.exists
    /\ ~wavFnd.called /\ ~cliFnd.called
    /\ \E src \in {"in", "out"} :
         wavFnd' = [called |-> TRUE, src |-> src,
                    res |-> find_wav(IF src = "in" THEN wavIn ELSE wavOut)]
    /\ UNCHANGED <<wavIn, wavOut, wavHid, cliHid, cliFnd, markerVars, imgVars, pngVars, chunkVars, scan>>

(* main, Command::Hide on an audio file *)
CliAudioHide ==
    /\ wavIn.exists
    /\ ~wavHid.called /\ ~wavFnd.called /\ ~cliFnd.called
    /\ \E message \in CliMessages :
         LET r == cli_audio_hide(wavIn, message) IN
         /\ cliHid' = [called |-> TRUE, message |-> message]
         /\ wavHid' = [called |-> TRUE, msg |-> cli_frame_bits(message),
                       res |-> r.res, bits |-> r.bits, mem |-> r.mem]
         /\ wavOut' = IF r.res.kind = "Ok" THEN r.out ELSE wavOut
    /\ UNCHANGED <<wavIn, wavFnd, cliFnd, markerVars, imgVars, pngVars, chunkVars, scan>>

(* main, Command::Find on an audio file *)
CliAudioFind ==
    /\ wavIn.exists
    /\ ~wavFnd.called /\ ~cliFnd.called
    /\ \E src \in {"in", "out"} :
         cliFnd' = [called |-> TRUE, src |-> src,
                    res |-> cli_audio_find(IF src = "in" THEN wavIn ELSE wavOut)]
    /\ UNCHANGED <<wavIn, wavOut, wavHid, wavFnd, cliHid, markerVars, imgVars, pngVars, chunkVars, scan>>

HideImg ==
    /\ imgIn.exists
    /\ ~imgHid.called /\ ~imgFnd.called
    /\ \E msg \in ImgMsgs :
         LET r == general_lsb_hide(imgIn, msg) IN
         /\ imgHid' = [called |-> TRUE, msg |-> msg, res |-> r.res,
                       bits |-> r.bits, mem |-> r.mem]
         /\ imgOut' = IF r.res.kind = "Ok" THEN r.out ELSE imgOut
    /\ UNCHANGED <<imgIn, imgFnd, markerVars, wavVars, pngVars, chunkVars, scan>>

FindImg ==
    /\ imgIn.exists
    /\ ~imgFnd.called
    /\ \E src \in {"in", "out"} :
         imgFnd' = [called |-> TRUE, src |-> src,
                    res |-> general_lsb_find(IF src = "in" THEN imgIn ELSE imgOut)]
    /\ UNCHANGED <<imgIn, imgOut, imgHid, markerVars, wavVars, pngVars, chunkVars, scan>>

(* picture::lsb::hide on a PNG file *)
HidePng ==
    /\ pngIn.exists
    /\ ~pngHid.called
    /\ \E msg \in PngMsgs :
         LET r == png_hide(pngIn, msg) IN
         /\ pngHid' = [called |-> TRUE, msg |-> msg, res |-> r.res,
                       bits |-> r.bits, mem |-> r.mem]
         /\ pngOut' = IF r.res.kind = "Ok" THEN r.out ELSE pngOut
    /\ UNCHANGED <<pngIn, markerVars, wavVars, imgVars, chunkVars, scan>>

(* chunk_payload_with_identifier on a payload of chk.payload_len bytes *)
ChunkPayloadWithIdentifier ==
    /\ chk.pending
    /\ LET o == chunk_headers(chk.payload_len, chk.identifier)
       IN  chk' = [pending |-> FALSE, called |-> TRUE,
                   payload_len |-> chk.payload_len, identifier |-> chk.identifier,
                   kind |-> o.kind, count |-> o.count, totals |-> o.totals,
                   seq_wrong |-> o.seq_wrong, seq_ge_total |-> o.seq_ge_total,
                   body_lens |-> o.body_lens, last_len |-> o.last_len,
                   reassembly |-> IF o.kind = "Ok" THEN reassemble_headers(o)
                                  ELSE "None"]
    /\ UNCHANGED <<markerVars, wavVars, imgVars, pngVars, scan>>

(* one iteration of the loop of find_sos_index or collect_app_segments;    *)
(* prev is the index it started from, looped whether it went round the     *)
(* loop again                                                              *)
ScanStep ==
    /\ scan.active /\ ~scan.done
    /\ LET r == scan_iteration(scan.fn, scan.buf, scan.i, scan.res)
       IN  scan' = [scan EXCEPT !.prev = scan.i, !.i = r.i, !.read = r.read,
                                !.done = r.done, !.found = r.found,
                                !.res = r.res, !.looped = ~r.done]
    /\ UNCHANGED <<markerVars, wavVars, imgVars, pngVars, chunkVars>>

Next ==
    \/ HidePayloadFile \/ Rehide \/ ExtractPayloadFile
    \/ HideJpg \/ FindJpg
    \/ HideWav \/ FindWav \/ CliAudioHide \/ CliAudioFind
    \/ HideImg \/ FindImg
    \/ HidePng
    \/ ChunkPayloadWithIdentifier
    \/ ScanStep

Spec == Init /\ [][Next]_vars

(* a scanner that has been called runs: its loop is not suspended forever *)
SpecScan == Spec /\ WF_vars(ScanStep)

(***************************************************************************)
(* Vocabulary of the marker claims, stated over the bytes of a buffer      *)
(* independently of insert_or_replace_appn and extract_payload_from_bytes. *)
(***************************************************************************)
LengthCarrying(m) == m # SOS_MARKER /\ ~IsStandalone(m)

HasPayload(seg) == seg[2] + 4 <= seg[3]

PayloadOf(b, seg) == IF HasPayload(seg) THEN Slice(b, seg[2] + 4, seg[3]) ELSE <<>>

(* the payloads, in buffer order, of the scanned segments tagged with id *)
TaggedPayloads(b, id) ==
    LET segs == collect_app_segments(b)
        IsTagged(seg) == HasPayload(seg) /\ starts_with(PayloadOf(b, seg), id)
        t == SelectSeq(segs, IsTagged)
    IN  [k \in 1..Len(t) |-> PayloadOf(b, t[k])]

(* the bytes, in buffer order, of the scanned segments not tagged with id *)
UntaggedSegments(b, id, minLen) ==
    LET segs == collect_app_segments(b)
        IsOther(seg) == /\ seg[3] - seg[2] >= minLen
                        /\ ~starts_with(PayloadOf(b, seg), id)
        t == SelectSeq(segs, IsOther)
    IN  [k \in 1..Len(t) |-> Slice(b, t[k][2], t[k][3])]

(* pieces occur in out at or after 0-based position from, in this order *)
RECURSIVE ContainsInOrder(_, _, _, _)
ContainsInOrder(out, pieces, k, from) ==
    IF k > Len(pieces) THEN TRUE
    ELSE LET n == Len(pieces[k])
             hits == {p \in from..(Len(out) - n) : Slice(out, p, p + n) = pieces[k]}
         IN  /\ hits # {}
             /\ LET p == CHOOSE q \in hits : \A r \in hits : q <= r
                IN  ContainsInOrder(out, pieces, k + 1, p + n)

EndsWith(out, suffix) ==
    /\ Len(suffix) <= Len(out)
    /\ SliceFrom(out, Len(out) - Len(suffix)) = suffix

HidOk == hid.called /\ hid.res.kind = "Ok" /\ hid.id.some

FoundInOutput == fnd.called /\ fnd.src = "out" /\ fnd.id = hid.id.val

FitsU16(P, id) ==
    /\ max_body_of(id) > 0
    /\ chunk_count(Len(P), max_body_of(id)) <= 65535

(* C1 as stated: round trip for every marker byte.                         *)
(* After a successful insert of a non-empty payload under Some(id), with   *)
(* any marker byte, extracting with id from the output returns the payload.*)
C1_RoundTripAnyMarker ==
    (HidOk /\ hid.payload # <<>> /\ FitsU16(hid.payload, hid.id.val)
       /\ FoundInOutput)
    => fnd.res = OkSome(hid.payload)

(* C1 amended: when start-of-scan is found in the carrier, the marker byte *)
(* is one the scanner reads a length field for (not 0xDA, 0x00,            *)
(* 0xD0..0xD7), the identifier leaves room for a chunk body and the        *)
(* payload is non-empty with a chunk count that fits 16 bits, the insert   *)
(* succeeds and extracting with the identifier returns Ok(Some(payload)).  *)
C1_RoundTrip ==
    (/\ hid.called /\ hid.id.some
     /\ find_sos_index(hid.orig).some
     /\ LengthCarrying(hid.marker)
     /\ hid.payload # <<>>
     /\ FitsU16(hid.payload, hid.id.val))
    => /\ hid.res.kind = "Ok"
       /\ FoundInOutput => fnd.res = OkSome(hid.payload)

C1_Witness ==
    /\ HidOk /\ FoundInOutput
    /\ LengthCarrying(hid.marker)
    /\ Len(hid.payload) > max_body_of(hid.id.val)
    /\ \E i \in 1..(Len(hid.payload) - 1) :
         hid.payload[i] = 255 /\ hid.payload[i + 1] = 218
    /\ fnd.res = OkSome(hid.payload)

TaggedAreChunksOf(b, id, P) ==
    LET t == TaggedPayloads(b, id)
        n == Len(t)
        h == Len(id)
        body(k) == SliceFrom(t[k], h + 4)
    IN  /\ \A k \in 1..n :
             /\ Len(t[k]) >= h + 4
             /\ u16_from_be_bytes(At(t[k], h), At(t[k], h + 1)) = k - 1
             /\ u16_from_be_bytes(At(t[k], h + 2), At(t[k], h + 3)) = n
             /\ Len(body(k)) >= 1
             /\ Len(body(k)) <= max_body_of(id)
             /\ k < n => Len(body(k)) = max_body_of(id)
        /\ Concat([k \in 1..n |-> body(k)]) = P

C4_EmptyRoundTrip ==
    (HidOk /\ LengthCarrying(hid.marker) /\ hid.payload = <<>> /\ FoundInOutput)
    => fnd.res = OkSome(<<>>)

(* the tagged segments of b with a complete chunk header, as (seq, total) *)
TaggedHeaders(b, id) ==
    LET t == TaggedPayloads(b, id)
        h == Len(id)
        full == SelectSeq(t, LAMBDA x : Len(x) >= h + 4)
    IN  [k \in 1..Len(full) |->
           [seq |-> u16_from_be_bytes(At(full[k], h), At(full[k], h + 1)),
            total |-> u16_from_be_bytes(At(full[k], h + 2), At(full[k], h + 3))]]

HasShortTagged(b, id) ==
    \E k \in 1..Len(TaggedPayloads(b, id)) : Len(TaggedPayloads(b, id)[k]) < Len(id) + 4

ExpectedTotal(b, id) ==
    LET hs == TaggedHeaders(b, id)
        totals == {hs[k].total : k \in 1..Len(hs)}
    IN  IF totals = {} THEN 0 ELSE CHOOSE t \in totals : \A u \in totals : u <= t

Unfilled(b, id) ==
    LET hs == TaggedHeaders(b, id)
    IN  (0..(ExpectedTotal(b, id) - 1)) \ {hs[k].seq : k \in 1..Len(hs)}

SeqInRange(b, id) ==
    LET hs == TaggedHeaders(b, id)
    IN  \A k \in 1..Len(hs) : hs[k].seq < ExpectedTotal(b, id)

(* C9 as stated: whenever the tagged segments leave a sequence index below *)
(* expectedTotal unfilled, extraction fails with the missing-chunk error   *)
(* naming a missing index.                                                 *)
C9_MissingChunkAlways ==
    (fnd.called /\ Unfilled(FileOf(fnd.src), fnd.id) # {})
    => /\ fnd.res.kind = "Err"
       /\ fnd.res.err = "missing chunk"
       /\ fnd.res.a \in Unfilled(FileOf(fnd.src), fnd.id)

(* C9 amended: when a slot is unfilled, extraction always fails and never  *)
(* returns a payload; the error is the missing-chunk error, naming the     *)
(* lowest unfilled index, when every tagged segment has a complete chunk   *)
(* header and a sequence number below expectedTotal (otherwise the         *)
(* too-small-header or sequence-out-of-range error comes first).           *)
C9_MissingChunk ==
    (fnd.called /\ Unfilled(FileOf(fnd.src), fnd.id) # {})
    => LET b == FileOf(fnd.src)
           u == Unfilled(b, fnd.id)
       IN  /\ fnd.res.kind = "Err"
           /\ (~HasShortTagged(b, fnd.id) /\ SeqInRange(b, fnd.id))
              => fnd.res = ExtErr("missing chunk",
                                  CHOOSE i \in u : \A j \in u : i <= j, 0)

C9_Witness ==
    /\ fnd.called
    /\ TaggedHeaders(FileOf(fnd.src), fnd.id) = <<[seq |-> 0, total |-> 2]>>
    /\ fnd.res = ExtErr("missing chunk", 1, 0)

(* C10: extraction reports not-found exactly when no scanned segment has a *)
(* payload starting with the identifier; with at least one such segment    *)
(* the result is a payload or an error.                                    *)
C10_NotFoundIffUntagged ==
    fnd.called =>
      /\ (fnd.res.kind = "None") <=> (TaggedPayloads(FileOf(fnd.src), fnd.id) = <<>>)
      /\ fnd.res.kind = "None" => fnd.res = OkNone
      /\ fnd.res.kind \in {"None", "Some", "Err"}

C10_Witness ==
    /\ fnd.called
    /\ fnd.res = OkNone
    /\ fnd.id # <<>>
    /\ Len(collect_app_segments(FileOf(fnd.src))) >= 2

(***************************************************************************)
(* Vocabulary of the LSB claims.                                           *)
(***************************************************************************)
IsPcm16(file) == file.sample_format = "Int" /\ file.bits_per_sample = 16

FramedLen(msg) == 32 + 8 * Len(msg)

(* all bits of a cell above the lowest one, and the lowest one *)
UpperBits(v) == (v - (v % 2)) \div 2
LowBit(v) == v % 2

(* buffer position (0-based) of embeddable unit u of an RGBA buffer *)
UnitPos(u) == 4 * (u \div 3) + (u % 3)

PixelCount(file) == file.w * file.h

ImgFileOf(src) == IF src = "in" THEN imgIn ELSE imgOut

WithAlphaInverted(file) ==
    [file EXCEPT !.buf = [j \in 1..Len(file.buf) |->
                            IF (j - 1) % 4 = 3 THEN 255 - file.buf[j]
                            ELSE file.buf[j]]]

(* C5: for a PCM16 carrier of any sample values and a message (the empty   *)
(* one included) with 32 + 8*len(msg) <= number of samples, hide_wav       *)
(* succeeds and find_wav on the written file returns exactly the message.  *)
C5_WavRoundTrip ==
    (wavHid.called /\ IsPcm16(wavIn)
       /\ FramedLen(wavHid.msg) <= Len(wavIn.samples))
    => /\ wavHid.res.kind = "Ok"
       /\ (wavFnd.called /\ wavFnd.src = "out") => wavFnd.res = FindOk(wavHid.msg)

C5_Witness ==
    /\ wavHid.called /\ wavHid.res.kind = "Ok"
    /\ wavFnd.called /\ wavFnd.src = "out"
    /\ Len(wavHid.msg) >= 1
    /\ Len(wavIn.samples) = FramedLen(wavHid.msg)
    /\ \E i \in 1..Len(wavIn.samples) : wavIn.samples[i] < 0
    /\ \E i \in 1..Len(wavIn.samples) : wavIn.samples[i] # wavOut.samples[i]
    /\ wavFnd.res = FindOk(wavHid.msg)

(* C6: a hide whose framed bitstream has N bits succeeds on a carrier with *)
(* at least N units (N exactly included) and fails on fewer (N - 1         *)
(* included) with an error carrying the needed and the available count;    *)
(* on failure no unit is modified and no output is written.                *)
C6_CapacityBoundary ==
    /\ (wavHid.called /\ IsPcm16(wavIn)) =>
         LET need == FramedLen(wavHid.msg)
             have == Len(wavIn.samples)
         IN  /\ need <= have => (wavHid.res.kind = "Ok" /\ wavOut.exists)
             /\ need > have =>
                  /\ wavHid.res = LsbErr("Too big", need, have)
                  /\ wavHid.mem = wavIn.samples
                  /\ wavOut = NoWav
    /\ imgHid.called =>
         LET need == FramedLen(imgHid.msg)
             have == 3 * PixelCount(imgIn)
         IN  /\ need <= have => (imgHid.res.kind = "Ok" /\ imgOut.exists)
             /\ need > have =>
                  /\ imgHid.res = LsbErr("Message too big", need, have)
                  /\ imgHid.mem = imgIn.buf
                  /\ imgOut = NoImg

C6_Witness ==
    /\ wavHid.called /\ IsPcm16(wavIn)
    /\ Len(wavHid.msg) >= 1
    /\ Len(wavIn.samples) = FramedLen(wavHid.msg) - 1
    /\ wavHid.res.kind = "Err"
    /\ wavHid.res.need = wavHid.res.have + 1

(* C7: after a successful embed of k bits, every unit i < k keeps all bits *)
(* above the lowest one and has bit i as its lowest bit, and every unit    *)
(* i >= k (and every alpha byte) is unchanged.                             *)
C7_OnlyLowestBit ==
    /\ (wavHid.called /\ wavHid.res.kind = "Ok") =>
         LET k == Len(wavHid.bits)
             old == wavIn.samples
             new == wavHid.mem
         IN  /\ Len(new) = Len(old)
             /\ wavOut.samples = new
             /\ \A i \in 1..Len(old) :
                  IF i <= k
                  THEN /\ UpperBits(new[i]) = UpperBits(old[i])
                       /\ LowBit(new[i]) = wavHid.bits[i]
                       /\ new[i] \in -32768..32767
                  ELSE new[i] = old[i]
    /\ (imgHid.called /\ imgHid.res.kind = "Ok") =>
         LET k == Len(imgHid.bits)
             old == imgIn.buf
             new == imgHid.mem
         IN  /\ Len(new) = Len(old)
             /\ imgOut.buf = new
             /\ \A u \in 0..(3 * PixelCount(imgIn) - 1) :
                  IF u < k
                  THEN /\ UpperBits(At(new, UnitPos(u))) = UpperBits(At(old, UnitPos(u)))
                       /\ LowBit(At(new, UnitPos(u))) = At(imgHid.bits, u)
                  ELSE At(new, UnitPos(u)) = At(old, UnitPos(u))

C7_Witness ==
    /\ wavHid.called /\ wavHid.res.kind = "Ok"
    /\ Len(wavHid.bits) < Len(wavIn.samples)
    /\ \E i \in 1..Len(wavHid.bits) :
         wavIn.samples[i] < 0 /\ wavHid.mem[i] # wavIn.samples[i]
    /\ wavIn.samples[Len(wavIn.samples)] % 2 # 0

(* C8: in the image carrier bit i goes to channel i mod 3 of pixel i div 3 *)
(* and extraction reads the units in that order; the alpha byte of a pixel *)
(* is never modified and never read; the carrier has 3 * pixelCount units. *)
C8_RgbUnitsOnly ==
    /\ (imgHid.called /\ imgHid.res.kind = "Ok") =>
         /\ \A i \in 0..(Len(imgHid.bits) - 1) :
              LowBit(At(imgOut.buf, 4 * (i \div 3) + (i % 3))) = At(imgHid.bits, i)
         /\ \A p \in 0..(PixelCount(imgIn) - 1) :
              At(imgOut.buf, 4 * p + 3) = At(imgIn.buf, 4 * p + 3)
    /\ imgHid.called =>
         (imgHid.res.kind = "Ok" <=> FramedLen(imgHid.msg) <= 3 * PixelCount(imgIn))
    /\ imgFnd.called =>
         /\ imgFnd.res = general_lsb_find(WithAlphaInverted(ImgFileOf(imgFnd.src)))
         /\ ImgFileOf(imgFnd.src).exists =>
              (imgFnd.res = FindErr("Image too small to contain header")
               <=> 3 * PixelCount(ImgFileOf(imgFnd.src)) < 32)
    /\ (imgFnd.called /\ imgFnd.src = "out" /\ imgHid.called
          /\ imgHid.res.kind = "Ok") =>
         imgFnd.res = FindOk(imgHid.msg)

C8_Witness ==
    /\ imgHid.called /\ imgHid.res.kind = "Ok"
    /\ imgFnd.called /\ imgFnd.src = "out"
    /\ Len(imgHid.msg) >= 1
    /\ \E p \in 0..(PixelCount(imgIn) - 1) : At(imgIn.buf, 4 * p + 3) % 2 = 0
    /\ imgOut.buf # imgIn.buf
    /\ imgFnd.res = FindOk(imgHid.msg)

(***************************************************************************)
(* Vocabulary of the reassembly claims.                                    *)
(***************************************************************************)
(* the tagged segments of b with a complete chunk header, in buffer order *)
TaggedChunks(b, id) ==
    LET t == TaggedPayloads(b, id)
        h == Len(id)
        full == SelectSeq(t, LAMBDA x : Len(x) >= h + 4)
    IN  [k \in 1..Len(full) |->
           [seq |-> u16_from_be_bytes(At(full[k], h), At(full[k], h + 1)),
            total |-> u16_from_be_bytes(At(full[k], h + 2), At(full[k], h + 3)),
            data |-> SliceFrom(full[k], h + 4)]]

(* every slot 0..expectedTotal-1 is taken by at least one tagged segment, *)
(* every header is complete and no sequence number is out of range        *)
Covered(b, id) ==
    /\ ~HasShortTagged(b, id)
    /\ ExpectedTotal(b, id) > 0
    /\ SeqInRange(b, id)
    /\ Unfilled(b, id) = {}

DistinctSeqs(b, id) ==
    LET c == TaggedChunks(b, id)
    IN  \A j, k \in 1..Len(c) : j # k => c[j].seq # c[k].seq

(* data of the last segment in buffer order that carries sequence s *)
LastData(b, id, s) ==
    LET c == TaggedChunks(b, id)
        ks == {k \in 1..Len(c) : c[k].seq = s}
    IN  c[CHOOSE k \in ks : \A j \in ks : j <= k].data

SlotsInOrder(b, id) ==
    Concat([i \in 1..ExpectedTotal(b, id) |-> LastData(b, id, i - 1)])

SameTaggedSet(b, c, id) ==
    LET t == TaggedPayloads(b, id)
        u == TaggedPayloads(c, id)
    IN  /\ Len(t) = Len(u)
        /\ {t[k] : k \in 1..Len(t)} = {u[k] : k \in 1..Len(u)}

(* C11: when the tagged segments of the buffer have pairwise distinct      *)
(* sequence numbers covering 0..total-1, extraction returns the chunk data *)
(* concatenated in increasing sequence order, and returns the same for     *)
(* every carrier holding the same tagged segments in another order or with *)
(* unrelated segments interleaved differently.                             *)
C11_ReorderingTolerated ==
    (fnd.called /\ Covered(FileOf(fnd.src), fnd.id)
       /\ DistinctSeqs(FileOf(fnd.src), fnd.id))
    => /\ fnd.res = OkSome(SlotsInOrder(FileOf(fnd.src), fnd.id))
       /\ \A c \in Carriers :
            SameTaggedSet(FileOf(fnd.src), c, fnd.id)
            => extract_payload_from_bytes(c, fnd.id) = fnd.res

C11_Witness ==
    /\ fnd.called /\ fnd.id = Ducky
    /\ LET c == TaggedChunks(FileOf(fnd.src), fnd.id)
       IN  /\ Len(c) = 3 /\ c[1].seq = 2 /\ c[2].seq = 0 /\ c[3].seq = 1
    /\ Len(collect_app_segments(FileOf(fnd.src))) = 4
    /\ Cardinality({c \in Carriers : SameTaggedSet(FileOf(fnd.src), c, fnd.id)}) >= 12
    /\ fnd.res = OkSome(<<1, 2, 2, 3>>)

(* C12: when two or more tagged segments carry the same sequence number    *)
(* (and every slot is covered), extraction does not fail and each slot     *)
(* holds the data of the last segment in buffer order with that sequence   *)
(* number.                                                                 *)
C12_LastWriterWins ==
    (fnd.called /\ Covered(FileOf(fnd.src), fnd.id))
    => fnd.res = OkSome(SlotsInOrder(FileOf(fnd.src), fnd.id))

C12_Witness ==
    /\ fnd.called
    /\ ~DistinctSeqs(FileOf(fnd.src), fnd.id)
    /\ LET c == TaggedChunks(FileOf(fnd.src), fnd.id)
       IN  /\ Len(c) = 3 /\ c[1].seq = 1 /\ c[3].seq = 1
           /\ c[1].data # c[3].data
    /\ fnd.res = OkSome(<<98, 99, 99>>)

(* the first tagged segment in buffer order whose sequence number is not   *)
(* below expectedTotal                                                     *)
FirstOutOfRange(b, id) ==
    LET c == TaggedChunks(b, id)
        ks == {k \in 1..Len(c) : c[k].seq >= ExpectedTotal(b, id)}
    IN  c[CHOOSE k \in ks : \A j \in ks : k <= j]

(* C13 as stated: whenever some tagged segment has a sequence number not   *)
(* below expectedTotal (the maximum total field), extraction fails with    *)
(* the sequence-out-of-range error.                                        *)
C13_OutOfRangeAlways ==
    (fnd.called /\ ~SeqInRange(FileOf(fnd.src), fnd.id))
    => /\ fnd.res.kind = "Err"
       /\ fnd.res.err = "chunk seq >= total"

(* C13 amended: with complete headers and expectedTotal > 0 (the maximum   *)
(* total field over the tagged segments), a sequence number not below      *)
(* expectedTotal fails with the sequence-out-of-range error naming the     *)
(* first such sequence number and expectedTotal; when every sequence       *)
(* number is below expectedTotal no such error is raised, whatever the     *)
(* segments' own totals.  With expectedTotal = 0 the invalid-total error   *)
(* is raised instead.                                                      *)
C13_ExpectedTotalIsMax ==
    (fnd.called /\ ~HasShortTagged(FileOf(fnd.src), fnd.id)
       /\ TaggedChunks(FileOf(fnd.src), fnd.id) # <<>>)
    => LET b == FileOf(fnd.src)
           E == ExpectedTotal(b, fnd.id)
       IN  IF E = 0 THEN fnd.res = ExtErr("invalid total=0 in headers", 0, 0)
           ELSE IF ~SeqInRange(b, fnd.id)
           THEN fnd.res = ExtErr("chunk seq >= total",
                                 FirstOutOfRange(b, fnd.id).seq, E)
           ELSE fnd.res.err # "chunk seq >= total"

C13_Witness ==
    /\ fnd.called
    /\ LET c == TaggedChunks(FileOf(fnd.src), fnd.id)
       IN  /\ Len(c) = 3
           /\ c[1].total = 1 /\ c[2].total = 2 /\ c[2].seq = 1 /\ c[3].seq = 2
    /\ fnd.res = ExtErr("chunk seq >= total", 2, 2)

(***************************************************************************)
(* Vocabulary of the framed-bitstream claims.                              *)
(***************************************************************************)
WavFileOf(src) == IF src = "in" THEN wavIn ELSE wavOut

(* value of the 32 header bits, most significant first, as 16-bit halves *)
RECURSIVE BitsValue(_, _, _)
BitsValue(bits, from, n) ==
    IF n = 0 THEN 0
    ELSE (bits[from] % 2) * (2 ^ (n - 1)) + BitsValue(bits, from + 1, n - 1)

DeclaredLength(bits) == [hi |-> BitsValue(bits, 1, 16), lo |-> BitsValue(bits, 17, 16)]

(* fewer than 32 + 8 * declaredLength bits, for at least 32 bits *)
Truncated(bits) ==
    LET d == DeclaredLength(bits)
    IN  d.hi > 0 \/ 32 + 8 * d.lo > Len(bits)

(* C14: each find path that decodes a framed bitstream (find_wav, the      *)
(* image find, the audio Find command) fails with a header-incomplete      *)
(* error when fewer than 32 bits are available and with a                  *)
(* payload-truncated error when fewer than 32 + 8*declaredLength bits are  *)
(* available, and never indexes past the available bits.                   *)
C14_FramedDecodeErrors ==
    /\ (wavFnd.called /\ WavFileOf(wavFnd.src).exists /\ IsPcm16(WavFileOf(wavFnd.src)))
       => LET f == WavFileOf(wavFnd.src)
              bits == [i \in 1..Len(f.samples) |-> f.samples[i] % 2]
          IN  IF Len(bits) < 32 THEN wavFnd.res = FindErr("Too short for header")
              ELSE IF Truncated(bits) THEN wavFnd.res = FindErr("Truncated payload")
              ELSE wavFnd.res.kind = "Ok"
    /\ (imgFnd.called /\ ImgFileOf(imgFnd.src).exists)
       => LET f == ImgFileOf(imgFnd.src)
              bits == [u \in 1..(3 * PixelCount(f)) |-> At(f.buf, UnitPos(u - 1)) % 2]
          IN  IF Len(bits) < 32
              THEN imgFnd.res = FindErr("Image too small to contain header")
              ELSE IF Truncated(bits)
              THEN imgFnd.res = FindErr("Image does not contain full message")
              ELSE imgFnd.res.kind \in {"Ok", "Err"}
    /\ (cliFnd.called /\ find_wav(WavFileOf(cliFnd.src)).kind = "Ok")
       => LET bits == find_wav(WavFileOf(cliFnd.src)).val
          IN  /\ cliFnd.res.kind # "Panic"
              /\ IF Len(bits) < 32
                 THEN cliFnd.res = CliExit("Not enough data for header")
                 ELSE IF Truncated(bits) THEN cliFnd.res.kind = "Exit"
                 ELSE cliFnd.res.kind = "Ok"

(* n as 32 bits, bit 31 first (n below 2^16 here) *)
DeclaredBits(n) == [k \in 1..32 |-> IF k <= 16 THEN 0 ELSE (n \div (2 ^ (32 - k))) % 2]

MessageBits(m) ==
    Concat([k \in 1..Len(m) |-> [j \in 1..8 |-> (m[k] \div (2 ^ (8 - j))) % 2]])

(* C15: the bits the audio Hide command embeds for an n-byte message are   *)
(* the 32-bit big-endian length n followed by the message bytes MSB-first, *)
(* 32 + 8*n bits in all, so the command succeeds on every PCM16 carrier    *)
(* with at least 32 + 8*n samples.                                         *)
C15_CliAudioFraming ==
    (cliHid.called /\ IsPcm16(wavIn))
    => LET n == Len(cliHid.message)
       IN  /\ Len(wavHid.bits) = 32 + 8 * n
           /\ wavHid.bits = DeclaredBits(n) \o MessageBits(cliHid.message)
           /\ 32 + 8 * n <= Len(wavIn.samples) => wavHid.res.kind = "Ok"

(***************************************************************************)
(* Claims about chunking and the appended segments.                        *)
(***************************************************************************)
CeilDiv(a, b) == (a + b - 1) \div b

(* C16: for every payload length chunk_payload_with_identifier returns     *)
(* ceil(payloadLength / maxChunkBody) chunks, chunk number i carries       *)
(* sequence i, every chunk carries the number of chunks as its total, and  *)
(* every sequence field is below the total field: the 16-bit fields do not *)
(* wrap.                                                                   *)
C16_ChunkCountNoWrap ==
    (chk.called /\ chk.kind = "Ok")
    => LET n == CeilDiv(chk.payload_len, max_body_of(chk.identifier))
       IN  /\ chk.count = n
           /\ chk.seq_wrong = 0
           /\ chk.totals \subseteq {n}
           /\ chk.seq_ge_total = 0

(* the bytes insert_or_replace_appn put between the kept segments and the *)
(* start-of-scan suffix                                                    *)
AppendedRegion(orig, out, identifier) ==
    LET kept == keep_segments(orig, collect_app_segments(orig), identifier, 1)
        suffix == SliceFrom(orig, find_sos_index(orig).val)
    IN  Slice(out, 2 + Len(kept), Len(out) - Len(suffix))

(* region read as consecutive segments 0xFF, m, 16-bit length field, and   *)
(* length field - 2 payload bytes; ok is FALSE when it does not read so    *)
RECURSIVE ParseAppended(_, _, _)
ParseAppended(region, m, acc) ==
    IF region = <<>> THEN [ok |-> TRUE, segs |-> acc]
    ELSE IF Len(region) < 4 \/ region[1] # 255 \/ region[2] # m
    THEN [ok |-> FALSE, segs |-> acc]
    ELSE LET field == region[3] * 256 + region[4] IN
         IF field < 2 \/ field + 2 > Len(region) THEN [ok |-> FALSE, segs |-> acc]
         ELSE ParseAppended(SubSeq(region, field + 3, Len(region)), m,
                            Append(acc, [field |-> field,
                                         payload |-> SubSeq(region, 5, field + 2)]))

Appended ==
    ParseAppended(AppendedRegion(hid.orig, hid.res.val, hid.id), hid.marker, <<>>)

IdOf(h) == IF h.id.some THEN h.id.val ELSE <<>>

(* C17 as stated: every appended segment, counted as identifier + 2-byte   *)
(* sequence + 2-byte total + chunk bytes + 4 bytes of marker framing, is   *)
(* at most MAX_SEGMENT_TOTAL_LEN (65 535) bytes long.                      *)
C17_SegmentWithinTotalLen ==
    (hid.called /\ hid.res.kind = "Ok")
    => /\ Appended.ok
       /\ \A k \in 1..Len(Appended.segs) :
            Len(Appended.segs[k].payload) + 4 <= MAX_SEGMENT_TOTAL_LEN

(* C17 amended: the appended bytes are ceil(len(P) / maxChunkBody)         *)
(* segments; each has a payload (identifier, sequence, total, chunk bytes) *)
(* of at most MAX_SEGMENT_PAYLOAD bytes, so at most MAX_SEGMENT_PAYLOAD + 4 *)
(* bytes with the marker and the length field (65 537 in the source), and  *)
(* its length field equals the payload length plus 2, at most              *)
(* MAX_SEGMENT_TOTAL_LEN, untruncated.                                     *)
C17_SegmentSize ==
    (hid.called /\ hid.res.kind = "Ok")
    => /\ Appended.ok
       /\ Len(Appended.segs) = CeilDiv(Len(hid.payload), max_body_of(IdOf(hid)))
       /\ \A k \in 1..Len(Appended.segs) :
            LET seg == Appended.segs[k] IN
            /\ starts_with(seg.payload, IdOf(hid))
            /\ Len(seg.payload) > Len(IdOf(hid)) + 4
            /\ Len(seg.payload) <= MAX_SEGMENT_PAYLOAD
            /\ Len(seg.payload) + 4 <= MAX_SEGMENT_PAYLOAD + 4
            /\ seg.field = Len(seg.payload) + 2
            /\ seg.field <= MAX_SEGMENT_TOTAL_LEN
            /\ seg.field <= 65535
       /\ Concat([k \in 1..Len(Appended.segs) |->
                    SliceFrom(Appended.segs[k].payload, Len(IdOf(hid)) + 4)])
          = hid.payload

C17_Witness ==
    /\ hid.called /\ hid.res.kind = "Ok"
    /\ Appended.ok
    /\ Len(Appended.segs) >= 2
    /\ Len(Appended.segs[1].payload) + 4 = MAX_SEGMENT_PAYLOAD + 4
    /\ Len(Appended.segs[1].payload) + 4 > MAX_SEGMENT_TOTAL_LEN
    /\ Appended.segs[1].field = MAX_SEGMENT_TOTAL_LEN

(***************************************************************************)
(* Claims about failures of the marker paths and of the PNG-native hide.   *)
(***************************************************************************)
(* the scanner finds no start-of-scan marker: none is present before the   *)
(* end of the buffer, or a length field leads past the end                 *)
ScannerFails(b) == ~find_sos_index(b).some

(* C18: insert_or_replace_appn returns an error exactly when the scanner   *)
(* fails (no start-of-scan marker found, or a length field running past    *)
(* the buffer end) and returns Ok with a new buffer for every other input, *)
(* identifier and payload; chunking never fails or aborts.                 *)
C18_FailsOnlyWhenScannerFails ==
    hid.called =>
      /\ hid.res.kind \in {"Ok", "Err"}
      /\ hid.res.kind = "Err" <=> ScannerFails(hid.orig)

(* C19: extract_payload_from_bytes fails on every buffer in which no       *)
(* start-of-scan marker is found or a segment length field runs past the   *)
(* buffer end; it returns neither not-found nor a payload for it.          *)
C19_MalformedIsError ==
    (fnd.called /\ ScannerFails(FileOf(fnd.src))) => fnd.res.kind = "Err"

(* C20: the PNG-native hide rejects a carrier that is not RGB or RGBA with *)
(* an error before any byte of the pixel buffer is modified, checks the    *)
(* capacity before writing, and never aborts part-way through embedding;   *)
(* a failed hide leaves the buffer as decoded and writes no file.          *)
C20_PngValidationOrder ==
    pngHid.called =>
      /\ pngHid.res.kind \in {"Ok", "Err"}
      /\ pngIn.color_type \notin {"Rgb", "Rgba"} =>
           /\ pngHid.res.kind = "Err"
           /\ pngHid.res.err # "Message too big"
      /\ pngHid.res.kind # "Ok" => (pngHid.mem = pngIn.buf /\ pngOut = NoPng)

(***************************************************************************)
(* Vocabulary of the UTF-8 claim.                                          *)
(***************************************************************************)
(* the bytes a complete framed bitstream carries after its 32-bit header *)
FramedBytes(bits) ==
    [k \in 1..DeclaredLength(bits).lo |-> BitsValue(bits, 33 + 8 * (k - 1), 8)]

IsBitVector(bits) == \A k \in 1..Len(bits) : bits[k] \in {0, 1}

(* the complete framed bitstream the find call read, if it read one *)
CompleteFrame(bits) == Len(bits) >= 32 /\ ~Truncated(bits)

ImgBitsOf(f) == [u \in 1..(3 * PixelCount(f)) |-> At(f.buf, UnitPos(u - 1)) % 2]

JpgFileOf(src) == IF src = "in" THEN jpgIn ELSE jpgOut

(* the payload the JPEG find reassembles, when it holds its declared bytes *)
WrappedPayload(b) == extract_payload_from_bytes(b, Ducky)

HoldsDeclared(p) ==
    /\ Len(p) >= 4
    /\ p[1] = 0 /\ p[2] = 0
    /\ Len(p) >= 4 + p[3] * 256 + p[4]

DeclaredBytes(p) == SubSeq(p, 5, 4 + p[3] * 256 + p[4])

(* C21: recovered payload bytes that are not valid UTF-8 are never a       *)
(* failure of find: the audio Find command, the image find and the JPEG    *)
(* find each complete successfully on such a payload (the command with the *)
(* placeholder text as its output) instead of returning an error.          *)
C21_InvalidUtf8NeverFails ==
    /\ (/\ cliFnd.called
        /\ find_wav(WavFileOf(cliFnd.src)).kind = "Ok"
        /\ IsBitVector(find_wav(WavFileOf(cliFnd.src)).val)
        /\ CompleteFrame(find_wav(WavFileOf(cliFnd.src)).val)
        /\ ~IsValidUtf8(FramedBytes(find_wav(WavFileOf(cliFnd.src)).val)))
       => cliFnd.res = CliOk(InvalidUtf8Text)
    /\ (/\ imgFnd.called
        /\ ImgFileOf(imgFnd.src).exists
        /\ CompleteFrame(ImgBitsOf(ImgFileOf(imgFnd.src)))
        /\ ~IsValidUtf8(FramedBytes(ImgBitsOf(ImgFileOf(imgFnd.src)))))
       => imgFnd.res.kind = "Ok"
    /\ (/\ txtFnd.called
        /\ JpgFileOf(txtFnd.src).exists
        /\ WrappedPayload(JpgFileOf(txtFnd.src).bytes).kind = "Some"
        /\ HoldsDeclared(WrappedPayload(JpgFileOf(txtFnd.src).bytes).val)
        /\ ~IsValidUtf8(DeclaredBytes(WrappedPayload(JpgFileOf(txtFnd.src).bytes).val)))
       => txtFnd.res.kind = "Ok"

(* the three parts of C21 taken apart, to tell which find paths diverge *)
C21_CliPlaceholder ==
    (/\ cliFnd.called
     /\ find_wav(WavFileOf(cliFnd.src)).kind = "Ok"
     /\ IsBitVector(find_wav(WavFileOf(cliFnd.src)).val)
     /\ CompleteFrame(find_wav(WavFileOf(cliFnd.src)).val)
     /\ ~IsValidUtf8(FramedBytes(find_wav(WavFileOf(cliFnd.src)).val)))
    => cliFnd.res = CliOk(InvalidUtf8Text)

C21_CliReached ==
    /\ cliFnd.called
    /\ find_wav(WavFileOf(cliFnd.src)).kind = "Ok"
    /\ IsBitVector(find_wav(WavFileOf(cliFnd.src)).val)
    /\ CompleteFrame(find_wav(WavFileOf(cliFnd.src)).val)
    /\ ~IsValidUtf8(FramedBytes(find_wav(WavFileOf(cliFnd.src)).val))

C21_ImgFails ==
    /\ imgFnd.called
    /\ ImgFileOf(imgFnd.src).exists
    /\ CompleteFrame(ImgBitsOf(ImgFileOf(imgFnd.src)))
    /\ ~IsValidUtf8(FramedBytes(ImgBitsOf(ImgFileOf(imgFnd.src))))
    /\ imgFnd.res = FindErr("<invalid utf8>")

C21_JpgFails ==
    /\ txtFnd.called
    /\ JpgFileOf(txtFnd.src).exists
    /\ WrappedPayload(JpgFileOf(txtFnd.src).bytes).kind = "Some"
    /\ HoldsDeclared(WrappedPayload(JpgFileOf(txtFnd.src).bytes).val)
    /\ ~IsValidUtf8(DeclaredBytes(WrappedPayload(JpgFileOf(txtFnd.src).bytes).val))
    /\ txtFnd.res = FindErr("<invalid utf8>")

(***************************************************************************)
(* Vocabulary of the idempotency claim.                                    *)
(***************************************************************************)
(* the hide just made, run once more on its own output *)
HideAgain == insert_or_replace_appn(hid.res.val, hid.marker, hid.id, hid.payload)

(* number of segments of b whose payload starts with id *)
TaggedCount(b, id) == Len(TaggedPayloads(b, id))

(* C22 as stated: for every buffer with a start-of-scan marker and every   *)
(* m, id, P, applying insert_or_replace_appn with the same (m, id, P) to   *)
(* its own output yields a buffer identical to that output.                *)
C22_IdempotentAlways ==
    (hid.called /\ hid.res.kind = "Ok")
    => HideAgain = InsOk(hid.res.val)

(* C22, amended: the same for a length-carrying marker and a present       *)
(* identifier; the repeated hide then neither grows the file nor changes   *)
(* the number of tagged segments.                                          *)
C22_Idempotent ==
    (/\ hid.called /\ hid.res.kind = "Ok"
     /\ LengthCarrying(hid.marker)
     /\ hid.id.some)
    => /\ HideAgain = InsOk(hid.res.val)
       /\ Len(HideAgain.val) = Len(hid.res.val)
       /\ TaggedCount(HideAgain.val, hid.id.val) = TaggedCount(hid.res.val, hid.id.val)

(* a hide repeated on its own output that left several tagged segments in  *)
(* place of the ones it removed                                            *)
C22_Witness ==
    /\ hid.called /\ hid.res.kind = "Ok"
    /\ hid.src = "out" /\ rehides >= 1
    /\ LengthCarrying(hid.marker)
    /\ hid.id.some /\ hid.id.val # <<>>
    /\ TaggedCount(hid.orig, hid.id.val) >= 2
    /\ hid.res.val = hid.orig
    /\ HideAgain = InsOk(hid.res.val)

(***************************************************************************)
(* Vocabulary of the scanner claims.                                       *)
(***************************************************************************)
(* C23: the two scanners agree.  For every buffer on which find_sos_index  *)
(* returns Some(s), the segments returned by collect_app_segments are in   *)
(* increasing order, pairwise non-overlapping, each with                   *)
(* 2 <= start < end <= s, so none contains or crosses index s.             *)
SegmentsBelowSos(buf) ==
    LET sos == find_sos_index(buf)
        segs == collect_app_segments(buf)
    IN  sos.some
        => /\ \A k \in 1..Len(segs) :
                /\ 2 <= segs[k][2]
                /\ segs[k][2] < segs[k][3]
                /\ segs[k][3] <= sos.val
           /\ \A k \in 1..(Len(segs) - 1) : segs[k][3] <= segs[k + 1][2]

(* the bytes insert_or_replace_appn adds for the payload *)
InsertedLen(identifier, payload, app_marker) ==
    LET id == IF identifier.some THEN identifier.val ELSE <<>>
        chunked == chunk_payload_with_identifier(payload, id)
    IN  Len(Concat([k \in 1..Len(chunked.chunks) |->
                      make_app_segment(app_marker, chunked.chunks[k])]))

(* the whole segments of b, in buffer order, that a hide under identifier  *)
(* leaves in place: those of four bytes or more not tagged with it         *)
WholeSegmentsLeft(b, identifier) ==
    LET segs == collect_app_segments(b)
        Tagged(seg) == identifier.some /\ starts_with(PayloadOf(b, seg), identifier.val)
    IN  Concat([k \in 1..Len(segs) |->
                  IF HasPayload(segs[k]) /\ ~Tagged(segs[k])
                  THEN Slice(b, segs[k][2], segs[k][3]) ELSE <<>>])

(* C23: scanner agreement on every buffer scanned and on every buffer a    *)
(* hide reads; so the output of insert_or_replace_appn ends with the       *)
(* original's bytes from s on, and its other bytes are SOI, whole segments *)
(* of the original that end at or before s, and the new segments: no byte  *)
(* of the scan suffix is duplicated and no segment is split.               *)
C23_ScannersAgree ==
    /\ scan.active => SegmentsBelowSos(scan.buf)
    /\ jpgIn.exists => SegmentsBelowSos(jpgIn.bytes)
    /\ jpgOut.exists => SegmentsBelowSos(jpgOut.bytes)
    /\ (hid.called /\ hid.res.kind = "Ok")
       => LET s == find_sos_index(hid.orig).val
              out == hid.res.val
              added == InsertedLen(hid.id, hid.payload, hid.marker)
              keptLen == Len(out) - 2 - added - (Len(hid.orig) - s)
          IN  /\ SegmentsBelowSos(hid.orig)
              /\ EndsWith(out, SliceFrom(hid.orig, s))
              /\ 0 <= keptLen /\ keptLen <= s - 2
              /\ Slice(out, 2, 2 + keptLen) = WholeSegmentsLeft(hid.orig, hid.id)

(* a buffer with at least three segments before its start-of-scan marker,  *)
(* among them one with an empty length field, scanned to the end           *)
C23_Witness ==
    /\ scan.active /\ scan.done
    /\ scan.fn = "collect_app_segments"
    /\ find_sos_index(scan.buf).some
    /\ Len(scan.res) >= 3
    /\ scan.res = collect_app_segments(scan.buf)
    /\ scan.res[Len(scan.res)][3] <= find_sos_index(scan.buf).val

(* what the scanner called returns on buf *)
ScanResult(fn, buf) ==
    IF fn = "find_sos_index" THEN [found |-> find_sos_index(buf), res |-> <<>>]
    ELSE [found |-> NoIndex, res |-> collect_app_segments(buf)]

(* every iteration that goes round the loop again has strictly increased   *)
(* the scan index, no iteration reads at or beyond the buffer end, and a   *)
(* finished scan has the result of the scanner                             *)
C24_IterationSafe ==
    scan.active
    => /\ scan.looped => scan.prev < scan.i
       /\ scan.read < Len(scan.buf)
       /\ scan.done => /\ scan.found = ScanResult(scan.fn, scan.buf).found
                       /\ scan.res = ScanResult(scan.fn, scan.buf).res

(* C24: the segment scan terminates on every finite byte buffer, including *)
(* buffers with length fields of 0 or 1, runs of 0xFF bytes and no         *)
(* start-of-scan marker: each iteration of find_sos_index and of           *)
(* collect_app_segments strictly increases the scan index, and the index   *)
(* is never used to read beyond the buffer end.                            *)
C24_ScanTerminates ==
    /\ []C24_IterationSafe
    /\ scan.active ~> scan.done

(* a finished scan of a buffer without start-of-scan marker that holds two *)
(* adjacent 0xFF bytes and a segment whose length field is 0 or 1          *)
C24_Witness ==
    /\ scan.active /\ scan.done
    /\ ~find_sos_index(scan.buf).some
    /\ scan.i > 2
    /\ \E k \in 1..(Len(scan.buf) - 1) : scan.buf[k] = 255 /\ scan.buf[k + 1] = 255
    /\ \E k \in 1..Len(collect_app_segments(scan.buf)) :
          LET seg == collect_app_segments(scan.buf)[k]
          IN  /\ u16_from_be_bytes(At(scan.buf, seg[2] + 2), At(scan.buf, seg[2] + 3)) \in {0, 1}
              /\ seg[3] - seg[2] \in {2, 3}

(***************************************************************************)
(* Vocabulary of the text-wrapper claim.                                   *)
(***************************************************************************)
(* n as four bytes, most significant first (n below 2^24 here) *)
BigEndian4(n) == <<0, (n \div 65536) % 256, (n \div 256) % 256, n % 256>>

(* the output file is as the text wrapper wrote it *)
WrapperHidLast == txtHid.called /\ rehides = 0

(* the wrappers on the messages and carriers held byte by byte: hide       *)
(* multiplexes the 4-byte big-endian length and the message under 0xEB and *)
(* "Ducky\0"; find on its output returns the message; find on any file     *)
(* whose reassembled payload is p fails when p is shorter than 4 bytes or  *)
(* than 4 + declaredLength and otherwise returns the declared bytes        *)
C25_WrappersByteLevel ==
    /\ (WrapperHidLast /\ find_sos_index(jpgIn.bytes).some)
       => /\ txtHid.res = TxtOk
          /\ hid.marker = 235
          /\ hid.id = Some(<<68, 117, 99, 107, 121, 0>>)
          /\ hid.payload = BigEndian4(Len(txtHid.msg)) \o txtHid.msg
          /\ jpgOut = JpgFile(hid.res.val)
    /\ (WrapperHidLast /\ txtHid.res = TxtOk /\ txtFnd.called /\ txtFnd.src = "out")
       => txtFnd.res = FindOk(txtHid.msg)
    /\ (/\ txtFnd.called
        /\ JpgFileOf(txtFnd.src).exists
        /\ WrappedPayload(JpgFileOf(txtFnd.src).bytes).kind = "Some")
       => LET p == WrappedPayload(JpgFileOf(txtFnd.src).bytes).val
          IN  IF ~HoldsDeclared(p) THEN txtFnd.res.kind = "Err"
              ELSE IF IsValidUtf8(DeclaredBytes(p))
              THEN txtFnd.res = FindOk(DeclaredBytes(p))
              ELSE txtFnd.res.kind = "Err"

(* C25: the JPEG hide/find wrappers round-trip every text message          *)
(* including the empty one: hide prepends a 4-byte big-endian length and   *)
(* multiplexes the result under marker 0xEB and identifier "Ducky\0", find *)
(* returns the first declaredLength bytes after the prefix, which equal    *)
(* the message, and fails when the reassembled payload is shorter than 4   *)
(* bytes or than 4 + declaredLength.  For a message of n bytes the chunks  *)
(* made of the n + 4 payload bytes must reassemble.                        *)
C25_TextRoundTrip ==
    /\ C25_WrappersByteLevel
    /\ (chk.called /\ chk.identifier = <<68, 117, 99, 107, 121, 0>>
        /\ chk.payload_len >= 4)
       => /\ chk.kind = "Ok"
          /\ chk.reassembly = "Some"

(* the wrappers' round trip of a message of several bytes and of the empty *)
(* message                                                                 *)
C25_RoundTripReached ==
    /\ WrapperHidLast /\ txtHid.res = TxtOk
    /\ txtFnd.called /\ txtFnd.src = "out"
    /\ txtFnd.res = FindOk(txtHid.msg)
    /\ Len(txtHid.msg) >= 2

C25_EmptyReached ==
    /\ WrapperHidLast /\ txtHid.res = TxtOk
    /\ txtFnd.called /\ txtFnd.src = "out"
    /\ txtFnd.res = FindOk(<<>>)
    /\ txtHid.msg = <<>>

C25_ShortReached ==
    /\ txtFnd.called
    /\ txtFnd.res = FindErr("payload shorter than claimed length")

====
